---- MODULE Spec2Model ----
(***************************************************************************)
(* rkcribber/deep-eval: the document evaluation pipeline.                  *)
(*                                                                         *)
(* The model follows one run: process_data_task (src/tasks.py) validates   *)
(* the submission, downloads the PDF and calls run_full_pipeline           *)
(* (src/processing/pipeline.py), which sequences OCR, the empty-page       *)
(* check, evaluation, annotation, artifact upload and external delivery.   *)
(* run_full_pipeline is also a public entry point of the processing        *)
(* package (src/processing/__init__.py) and can be called directly.        *)
(* Every external call is one action whose outcome is chosen by the        *)
(* environment; the code between two external calls belongs to the action  *)
(* of the call that precedes it.                                           *)
(***************************************************************************)
EXTENDS Integers, Sequences, FiniteSets, TLC

VARIABLES
    pc,            \* position of the run in the code
    entry,         \* "none" | "task" | "direct": how the run was started
    data,          \* the submission (task) or the arguments (direct call)
    config,        \* config.py: the credentials read from the environment
    progress,      \* <<percentage, step>> pairs handed to the progress sink
    taskDirExists, \* tmp/<task_id> exists
    files,         \* files written by the run
    calls,         \* number of calls made to each external collaborator
    ocr,           \* outcome of the OCR call: the kind of text extract_text returned
    detection,     \* empty_page_detection fields read from the OCR result
    elapsed_time,  \* evaluate_text_assistant_ai: seconds slept while polling
    status,        \* evaluate_text_assistant_ai: last run status seen
    evaluation,    \* the evaluation returned by evaluate_text_assistant_ai
    validation,    \* what validate_evaluation_json returned
    annotation,    \* outcome of the call of annotate_pdf_with_comments
    annotated_pdf_path, \* "unset", the path, or None
    upload,        \* annotated_pdf_url and verified_copy_api_success
    delivery,      \* send_evaluation_to_external_api: attempts, payloads, outcome
    process_api,   \* trigger_process_api: outcome
    result,        \* the dictionary run_full_pipeline returned
    taskResult,    \* the dictionary process_data_task returned
    runs,          \* two concurrent runs: what each has written so far
    src_doc,       \* _convert_pdf_to_images: the page sizes of the source PDF
    pages_metadata,    \* _convert_pdf_to_images: the PageMetadata emitted so far
    pdf_box,           \* the box on the original page whose image was mapped, or <<>>
    line_page,         \* convert_ocr_result_coords: the page of the line mapped, or 0
    normalized_coords, \* normalized_to_pdf_coords: its argument, or <<>>
    pdf_coords,        \* normalized_to_pdf_coords: its result, or <<>>
    json_str,          \* safe_json_loads: the text between the brackets of a
                       \* "Coordinates" array of the OCR answer, as characters
    sanitized,         \* sanitize_json_string: the same text once repaired, or <<>>
    loads,             \* safe_json_loads: "none", "parsed", "repaired" or "raises"
    line_text,         \* safe_json_loads: the "Text" value of the line, as characters
    sanitized_text,    \* sanitize_json_string: the same value in its result, or <<>>
    ocr_result,        \* extract_text: the parsed answer of the OCR service
    student_coords,    \* run_full_pipeline: the coordinates handed to the evaluation
    empty_page_detection, \* run_full_pipeline: the record read from the OCR result
    annot_evaluation,  \* annotate_pdf_with_comments: the evaluation to draw
    pdf_for_annotation,   \* run_full_pipeline: the pages of the PDF to annotate
    margin_doc,        \* run_full_pipeline: the pages of the copy add_margins made
    doc,               \* annotate_pdf_with_comments: the pages and what is drawn on them
    comment_box,       \* annotate_pdf_with_comments: the box and the lines of the comment
    annot_pc           \* position in the blank-page step and the annotation

\* the variables of one run of the pipeline
pipelineVars ==
    <<pc, entry, data, config, progress, taskDirExists, files, calls, ocr,
      detection, elapsed_time, status, evaluation, validation,
      annotation, annotated_pdf_path, upload, delivery, process_api, result,
      taskResult>>

\* the variables of the page geometry: normalisation to A4 and the mapping back
geometryVars ==
    <<src_doc, pages_metadata, pdf_box, line_page, normalized_coords, pdf_coords>>

\* the variables of the repair of the OCR answer
sanitizerVars == <<json_str, sanitized, loads, line_text, sanitized_text>>

\* the variables of the conversion of the OCR result's coordinates
coordsVars == <<ocr_result, student_coords>>

\* the variables of the blank-page step and of the annotation
annotationVars ==
    <<empty_page_detection, annot_evaluation, pdf_for_annotation, margin_doc, doc,
      comment_box, annot_pc>>

\* the variables the pipeline's actions never touch
otherVars == <<runs, geometryVars, sanitizerVars, coordsVars, annotationVars>>

vars == <<pipelineVars, otherVars>>

\* Python's None, and the truth value of a string or None
None == "None"

Truthy(x) == x \notin {None, ""}

(***************************************************************************)
(* Program constants.                                                      *)
(***************************************************************************)
EXTERNAL_API_MAX_RETRIES == 3

max_wait_time == 600

poll_interval == 3

(***************************************************************************)
(* Bounds of the model.                                                    *)
(***************************************************************************)
\* blank_page_position values the OCR service may report: 0..MaxBlankPos
MaxBlankPos == 2

(***************************************************************************)
(* JSON values as Python sees them after json.loads.  A value is a record  *)
(* [t, v]: t is the Python type, v the content.  A str is the sequence of  *)
(* its characters, a dict the sequence of its <<key, value>> items in      *)
(* insertion order.                                                        *)
(***************************************************************************)
JNull == [t |-> "null", v |-> <<>>]

JNum(n) == [t |-> "num", v |-> n]

JBool(b) == [t |-> "bool", v |-> b]

JStr(chars) == [t |-> "str", v |-> chars]

JList(items) == [t |-> "list", v |-> items]

JDict(items) == [t |-> "dict", v |-> items]

\* the characters of the field names the validator looks for
KeyChars ==
    [k \in {"Questions", "Score", "Sub-part Coverage", "Comments",
            "Introduction", "Body", "Conclusion", "HygieneSummary",
            "Summary", "OverallSummary", "page", "coordinates"} |->
        CASE k = "Questions" -> <<"Q","u","e","s","t","i","o","n","s">>
          [] k = "Score" -> <<"S","c","o","r","e">>
          [] k = "Sub-part Coverage" ->
                <<"S","u","b","-","p","a","r","t"," ","C","o","v","e","r","a","g","e">>
          [] k = "Comments" -> <<"C","o","m","m","e","n","t","s">>
          [] k = "Introduction" -> <<"I","n","t","r","o","d","u","c","t","i","o","n">>
          [] k = "Body" -> <<"B","o","d","y">>
          [] k = "Conclusion" -> <<"C","o","n","c","l","u","s","i","o","n">>
          [] k = "HygieneSummary" ->
                <<"H","y","g","i","e","n","e","S","u","m","m","a","r","y">>
          [] k = "Summary" -> <<"S","u","m","m","a","r","y">>
          [] k = "OverallSummary" ->
                <<"O","v","e","r","a","l","l","S","u","m","m","a","r","y">>
          [] k = "page" -> <<"p","a","g","e">>
          [] k = "coordinates" -> <<"c","o","o","r","d","i","n","a","t","e","s">>]

IsSubstring(needle, hay) ==
    \E i \in 0..(Len(hay) - Len(needle)) :
        \A j \in 1..Len(needle) : hay[i + j] = needle[j]

\* Python's `key in x` is defined for dict (keys), list (elements) and str
\* (substring); for any other type it raises TypeError.
PyInRaises(x) == x.t \notin {"dict", "list", "str"}

PyIn(key, x) ==
    CASE x.t = "dict" -> \E i \in 1..Len(x.v) : x.v[i][1] = key
      [] x.t = "list" -> \E i \in 1..Len(x.v) :
                            x.v[i].t = "str" /\ x.v[i].v = KeyChars[key]
      [] x.t = "str" -> IsSubstring(KeyChars[key], x.v)
      [] OTHER -> FALSE

\* Python's x[key] with a str key: the value for a dict that has the key,
\* TypeError for a list or a str (indices must be integers).
PyGetItemRaises(x, key) == x.t # "dict" \/ ~PyIn(key, x)

PyGetItem(x, key) ==
    IF PyGetItemRaises(x, key) THEN JNull
    ELSE x.v[CHOOSE i \in 1..Len(x.v) :
                /\ x.v[i][1] = key
                /\ \A j \in (i + 1)..Len(x.v) : x.v[j][1] # key][2]

(***************************************************************************)
(* validate_evaluation_json (pipeline.py).  A check either appends error   *)
(* messages or raises TypeError; `raised` carries the exception out of the *)
(* loops as Python does.                                                   *)
(***************************************************************************)
NoErrors == [raised |-> FALSE, errors |-> <<>>]

Err(msg) == [raised |-> FALSE, errors |-> <<msg>>]

Raise == [raised |-> TRUE, errors |-> <<>>]

\* statement a followed by statement b
Then(a, b) ==
    IF a.raised THEN a
    ELSE [raised |-> b.raised, errors |-> a.errors \o b.errors]

RECURSIVE ThenAll(_)
ThenAll(seq) ==
    IF seq = <<>> THEN NoErrors ELSE Then(Head(seq), ThenAll(Tail(seq)))

\* if key not in x: errors.append(msg)
MissingCheck(key, x, msg) ==
    IF PyInRaises(x) THEN Raise
    ELSE IF ~PyIn(key, x) THEN Err(msg)
    ELSE NoErrors

CommentErrors(prefix, section, i, comment) ==
    LET comment_prefix == prefix \o " -> " \o section \o "[" \o ToString(i) \o "]"
        coordinates == PyGetItem(comment, "coordinates")
    IN  Then(MissingCheck("page", comment, comment_prefix \o ": Missing 'page'"),
             IF PyInRaises(comment) THEN Raise
             ELSE IF ~PyIn("coordinates", comment)
                  THEN Err(comment_prefix \o ": Missing 'coordinates'")
             ELSE IF PyGetItemRaises(comment, "coordinates") THEN Raise
             ELSE IF coordinates.t # "list" \/ Len(coordinates.v) # 4
                  THEN Err(comment_prefix \o ": 'coordinates' should be array of 4 values")
             ELSE NoErrors)

SectionErrors(prefix, comments, section) ==
    LET section_comments == PyGetItem(comments, section)
    IN  IF PyInRaises(comments) THEN Raise
        ELSE IF ~PyIn(section, comments)
             THEN Err(prefix \o ": Missing '" \o section \o "' in Comments")
        ELSE IF PyGetItemRaises(comments, section) THEN Raise
        ELSE IF section_comments.t # "list"
             THEN Err(prefix \o ": '" \o section \o "' should be a list")
        ELSE ThenAll([i \in 1..Len(section_comments.v) |->
                        CommentErrors(prefix, section, i - 1, section_comments.v[i])])

CommentsErrors(prefix, q_data) ==
    LET comments == PyGetItem(q_data, "Comments")
    IN  IF PyInRaises(q_data) THEN Raise
        ELSE IF ~PyIn("Comments", q_data) THEN Err(prefix \o ": Missing 'Comments'")
        ELSE IF PyGetItemRaises(q_data, "Comments") THEN Raise
        ELSE ThenAll(<<SectionErrors(prefix, comments, "Introduction"),
                       SectionErrors(prefix, comments, "Body"),
                       SectionErrors(prefix, comments, "Conclusion")>>)

QuestionErrors(q_id, q_data) ==
    LET prefix == "Question " \o q_id
    IN  ThenAll(<<MissingCheck("Score", q_data, prefix \o ": Missing 'Score'"),
                  MissingCheck("Sub-part Coverage", q_data,
                               prefix \o ": Missing 'Sub-part Coverage'"),
                  CommentsErrors(prefix, q_data),
                  MissingCheck("HygieneSummary", q_data,
                               prefix \o ": Missing 'HygieneSummary'"),
                  MissingCheck("Summary", q_data, prefix \o ": Missing 'Summary'")>>)

QuestionsErrors(ev) ==
    LET questions == PyGetItem(ev, "Questions")
    IN  IF ~PyIn("Questions", ev) THEN Err("Missing 'Questions' in evaluation")
        ELSE IF questions.t # "dict" THEN Err("'Questions' is not a valid object")
        ELSE ThenAll([i \in 1..Len(questions.v) |->
                        QuestionErrors(questions.v[i][1], questions.v[i][2])])

\* variant: a missing OverallSummary is not reported
OverallSummaryErrorsIgnoresMissing(ev) ==
    LET overall == PyGetItem(ev, "OverallSummary")
    IN  IF ~PyIn("OverallSummary", ev) THEN NoErrors
        ELSE IF overall.t # "list" THEN Err("'OverallSummary' should be a list")
        ELSE IF Len(overall.v) = 0 THEN Err("'OverallSummary' is empty")
        ELSE NoErrors

OverallSummaryErrors(ev) ==
    LET overall == PyGetItem(ev, "OverallSummary")
    IN  IF ~PyIn("OverallSummary", ev) THEN Err("Missing 'OverallSummary' in evaluation")
        ELSE IF overall.t # "list" THEN Err("'OverallSummary' should be a list")
        ELSE IF Len(overall.v) = 0 THEN Err("'OverallSummary' is empty")
        ELSE NoErrors

\* returns (is_valid, errors), or raises
validate_evaluation_json(ev) ==
    IF ev.t # "dict"
    THEN [raised |-> FALSE, is_valid |-> FALSE,
          errors |-> <<"Evaluation is not a valid JSON object">>]
    ELSE LET r == Then(QuestionsErrors(ev), OverallSummaryErrors(ev))
         IN  [raised |-> r.raised, is_valid |-> ~r.raised /\ Len(r.errors) = 0,
              errors |-> r.errors]

(***************************************************************************)
(* The evaluations the evaluation service may answer with.                 *)
(***************************************************************************)
Text == JStr(<<"o", "k">>)

\* a text with a control character (0x01) in it
TextCtl == JStr(<<"a", "0x01", "b">>)

Box == JList(<<JNum(10), JNum(20), JNum(30), JNum(40)>>)

Comment == JDict(<< <<"text", Text>>, <<"page", JNum(1)>>, <<"coordinates", Box>> >>)

CommentsOk ==
    JDict(<< <<"Introduction", JList(<<Comment>>)>>,
             <<"Body", JList(<<Comment, Comment>>)>>,
             <<"Conclusion", JList(<<>>)>> >>)

Question(comments) ==
    JDict(<< <<"Score", JNum(7)>>, <<"Sub-part Coverage", Text>>,
             <<"Comments", comments>>, <<"HygieneSummary", Text>>,
             <<"Summary", TextCtl>> >>)

QuestionOk == Question(CommentsOk)

Overall == JList(<<Text, Text>>)

EvalOf(questions) == JDict(<< <<"Questions", questions>>, <<"OverallSummary", Overall>> >>)

EvalComplete == EvalOf(JDict(<< <<"1", QuestionOk>>, <<"2", QuestionOk>> >>))

EvalNoOverall == JDict(<< <<"Questions", JDict(<< <<"1", QuestionOk>> >>)>> >>)

EvalEmptyOverall ==
    JDict(<< <<"Questions", JDict(<< <<"1", QuestionOk>> >>)>>,
             <<"OverallSummary", JList(<<>>)>> >>)

EvalNoScore ==
    EvalOf(JDict(<< <<"1", JDict(<< <<"Sub-part Coverage", Text>>,
                                     <<"Comments", CommentsOk>>,
                                     <<"HygieneSummary", Text>>,
                                     <<"Summary", Text>> >>)>> >>))

EvalShortBox ==
    EvalOf(JDict(<< <<"1", Question(JDict(<<
        <<"Introduction", JList(<<JDict(<< <<"page", JNum(1)>>,
              <<"coordinates", JList(<<JNum(1), JNum(2), JNum(3)>>)>> >>)>>)>>,
        <<"Body", JList(<<>>)>>, <<"Conclusion", JList(<<>>)>> >>))>> >>))

EvalQuestionsList == EvalOf(JList(<<QuestionOk>>))

EvalQuestionNum == EvalOf(JDict(<< <<"1", JNum(5)>> >>))

EvalQuestionStr == EvalOf(JDict(<< <<"1", JStr(<<"n", "/", "a">>)>> >>))

EvalCommentsNull == EvalOf(JDict(<< <<"1", Question(JNull)>> >>))

EvalCommentNum ==
    EvalOf(JDict(<< <<"1", Question(JDict(<<
        <<"Introduction", JList(<<JNum(3)>>)>>,
        <<"Body", JList(<<>>)>>, <<"Conclusion", JList(<<>>)>> >>))>> >>))

EvalNotDict == JList(<<QuestionOk>>)

EvalCases ==
    <<EvalComplete, EvalNoOverall, EvalEmptyOverall, EvalNoScore, EvalShortBox,
      EvalQuestionsList, EvalQuestionNum, EvalQuestionStr, EvalCommentsNull,
      EvalCommentNum, EvalNotDict>>

\* evaluate_text_assistant_ai's answer when the assistant text is not JSON
EvalRaw == JDict(<< <<"raw", Text>>, <<"parsed", JNull>> >>)

(***************************************************************************)
(* sanitize_evaluation and the delivery payload (pipeline.py).  A control  *)
(* character is written "0x01"; every other character is kept.             *)
(***************************************************************************)
ControlChars == {"0x00", "0x01", "0x1F", "0x7F", "0x9F"}

sanitize_for_json(chars) ==
    SelectSeq(chars, LAMBDA c : c \notin ControlChars)

RECURSIVE sanitize_evaluation(_)
sanitize_evaluation(x) ==
    CASE x.t = "dict" ->
            JDict([i \in 1..Len(x.v) |-> <<x.v[i][1], sanitize_evaluation(x.v[i][2])>>])
      [] x.t = "list" -> JList([i \in 1..Len(x.v) |-> sanitize_evaluation(x.v[i])])
      [] x.t = "str" -> JStr(sanitize_for_json(x.v))
      [] OTHER -> x

\* payload_json: the serialized body of the PUT, built once before the loop
payload_json(uid, ev) ==
    [uid |-> uid,
     data |-> [status |-> "OCR Completed",
               openai_response |-> sanitize_evaluation(ev)]]

(***************************************************************************)
(* The submissions, the environment and the answers of the collaborators.  *)
(***************************************************************************)
Submissions ==
    [student_uploaded_pdf_url : {None, "", "https://host/answer.pdf"},
     uid : {None, "", "u1"},
     model_answer_url : {None, "https://host/model.pdf"}]

ConfigAll ==
    [VERTEX_AI_API_KEY |-> "vertex-key", OPENAI_API_KEY |-> "openai-key",
     OPENAI_ASSISTANT_ID |-> "asst"]

Configs ==
    {ConfigAll,
     [ConfigAll EXCEPT !.VERTEX_AI_API_KEY = ""],
     [ConfigAll EXCEPT !.OPENAI_API_KEY = ""],
     [ConfigAll EXCEPT !.OPENAI_ASSISTANT_ID = ""]}

DownloadOutcomes == {"ok", "request_exception", "os_error"}

OcrOutcomes ==
    {"pdf_unreadable", "transport_error", "not_ok", "no_text", "object",
     "repaired_object", "page_list", "wrapped_list", "not_object", "broken"}

PutOutcomes == {"200", "non200", "timeout", "request_error"}

UploadOutcomes == {"success", "error"}

TerminalStatuses == {"completed", "failed", "cancelled", "expired"}

PollOutcomes ==
    {"not_ok", "request_exception", "queued", "in_progress"} \cup TerminalStatuses

PyTruthy(j) ==
    CASE j.t = "null" -> FALSE
      [] j.t = "bool" -> j.v
      [] j.t = "num" -> j.v # 0
      [] OTHER -> Len(j.v) > 0

DetectionDefault ==
    [insert_blank_page |-> FALSE, blank_page_position |-> JNull,
     case_applied |-> 0, summary_page_position |-> JNull]

DetectionCases ==
    {DetectionDefault,
     [insert_blank_page |-> FALSE, blank_page_position |-> JNull,
      case_applied |-> 1, summary_page_position |-> JNum(2)],
     [insert_blank_page |-> TRUE, blank_page_position |-> JNull,
      case_applied |-> 2, summary_page_position |-> JNull]}
    \cup {[insert_blank_page |-> TRUE, blank_page_position |-> JNum(p),
           case_applied |-> 2, summary_page_position |-> JNum(p)] :
            p \in 0..MaxBlankPos}

\* the record is read from the parsed object; a bare page list or a response
\* without text carries none
DetectionOf(outcome) ==
    IF outcome \in {"object", "repaired_object", "wrapped_list"}
    THEN DetectionCases ELSE {DetectionDefault}

(***************************************************************************)
(* Progress reports: update_progress(percentage, step).                    *)
(***************************************************************************)
\* variant: annotation_starting reports less than evaluation_completed
PercentAnnotationLower(step) ==
    CASE step = "starting" -> 0
      [] step = "downloading_pdf" -> 5
      [] step = "pdf_downloaded" -> 10
      [] step = "ocr_starting" -> 10
      [] step = "ocr_completed" -> 40
      [] step = "checking_empty_pages" -> 42
      [] step = "adding_margins_and_uploading" -> 43
      [] step = "blank_page_check_completed" -> 44
      [] step = "evaluation_starting" -> 45
      [] step = "evaluation_completed" -> 75
      [] step = "annotation_starting" -> 70
      [] step = "annotation_completed" -> 85
      [] step = "uploading_annotated_pdf" -> 87
      [] step = "external_api_starting" -> 90
      [] step = "completed" -> 100

Percent(step) ==
    CASE step = "starting" -> 0
      [] step = "downloading_pdf" -> 5
      [] step = "pdf_downloaded" -> 10
      [] step = "ocr_starting" -> 10
      [] step = "ocr_completed" -> 40
      [] step = "checking_empty_pages" -> 42
      [] step = "adding_margins_and_uploading" -> 43
      [] step = "blank_page_check_completed" -> 44
      [] step = "evaluation_starting" -> 45
      [] step = "evaluation_completed" -> 75
      [] step = "annotation_starting" -> 75
      [] step = "annotation_completed" -> 85
      [] step = "uploading_annotated_pdf" -> 87
      [] step = "external_api_starting" -> 90
      [] step = "completed" -> 100

Report(step) == <<Percent(step), step>>

(***************************************************************************)
(* The call of run_full_pipeline by keywords: Python raises TypeError for a *)
(* keyword that is no parameter, or a required parameter left out.         *)
(***************************************************************************)
RunFullPipelineParams ==
    {"pdf_path", "output_dir", "task_id", "uid", "vertex_api_key",
     "vertex_project_id", "vertex_location", "vertex_model_name",
     "openai_api_key", "openai_assistant_id", "progress_callback"}

RunFullPipelineRequired == RunFullPipelineParams \ {"progress_callback"}

\* the keywords process_data_task passes
TaskCallKeywords ==
    {"pdf_path", "output_dir", "task_id", "uid", "vertex_api_key",
     "vertex_project_id", "vertex_location", "vertex_model_name",
     "openai_api_key", "openai_assistant_id", "progress_callback",
     "model_answer_url"}

CallRaisesTypeError(keywords) ==
    \/ keywords \ RunFullPipelineParams # {}
    \/ RunFullPipelineRequired \ keywords # {}

(***************************************************************************)
(* Results and the ways a run returns.                                     *)
(***************************************************************************)
TmpFiles == {"tmp/input.pdf"}

OcrJson == "output/ocr.json"

EvaluationJson == "output/evaluation.json"

AnnotatedPdf == "output/annotated.pdf"

\* variant: the except handler reports no artifact
FailedResultWithoutArtifacts(msg, fs) ==
    [status |-> "failed", error |-> msg,
     ocr_output_path |-> None,
     evaluation_output_path |-> None,
     annotated_pdf_path |-> None,
     external_api_success |-> FALSE]

\* run_full_pipeline's except handler
FailedResult(msg, fs) ==
    [status |-> "failed", error |-> msg,
     ocr_output_path |-> IF OcrJson \in fs THEN OcrJson ELSE None,
     evaluation_output_path |-> IF EvaluationJson \in fs THEN EvaluationJson ELSE None,
     annotated_pdf_path |-> None,
     external_api_success |-> FALSE]

\* run_full_pipeline's return at the end of the try block
CompletedResult(deliv, proc) ==
    [status |-> "completed",
     ocr_output_path |-> OcrJson,
     evaluation_output_path |-> EvaluationJson,
     annotated_pdf_path |-> annotated_pdf_path,
     annotated_pdf_url |-> upload.annotated_pdf_url,
     verified_copy_api_success |-> upload.verified_copy_api_success,
     validation_errors |-> IF ~validation.is_valid THEN validation.errors ELSE <<>>,
     external_api_success |-> deliv.success,
     external_api_message |-> IF ~deliv.success THEN deliv.message ELSE None,
     process_api_success |-> proc.success,
     process_api_message |-> IF ~proc.success THEN proc.message ELSE None]

\* process_data_task, from the return of run_full_pipeline on
TaskResultOf(res) ==
    IF res.status = "completed"
    THEN [status |-> "completed", uid |-> data.uid,
          annotated_pdf_path |-> res.annotated_pdf_path,
          validation_errors |-> res.validation_errors,
          external_api_success |-> res.external_api_success,
          external_api_message |-> res.external_api_message]
    ELSE [status |-> "failed", error |-> res.error]

TaskFailed(msg) == [status |-> "failed", error |-> msg]

\* cleanup_task_dir: the task's temp directory is removed with what it holds
cleanup_task_dir(fs) == fs \ TmpFiles

Goto(p) ==
    /\ pc' = p
    /\ UNCHANGED <<result, taskDirExists, taskResult>>

PipelineReturns(e, res, fs) ==
    /\ pc' = "done"
    /\ result' = res
    /\ IF e = "task"
       THEN /\ files' = cleanup_task_dir(fs)
            /\ taskDirExists' = FALSE
            /\ taskResult' = TaskResultOf(res)
       ELSE /\ files' = fs
            /\ UNCHANGED <<taskDirExists, taskResult>>

PipelineFails(e, msg, fs) == PipelineReturns(e, FailedResult(msg, fs), fs)

Inc(name) == [calls EXCEPT ![name] = @ + 1]

(***************************************************************************)
(* process_data_task: validation of the submission and of the credentials. *)
(***************************************************************************)
\* variant: uid is not checked
ValidationErrorWithoutUid(d, cfg) ==
    IF ~Truthy(d.student_uploaded_pdf_url)
    THEN "Missing required field: student_uploaded_pdf_url"
    ELSE IF ~Truthy(cfg.VERTEX_AI_API_KEY) THEN "VERTEX_AI_API_KEY not configured"
    ELSE IF ~Truthy(cfg.OPENAI_API_KEY) \/ ~Truthy(cfg.OPENAI_ASSISTANT_ID)
         THEN "OPENAI_API_KEY or OPENAI_ASSISTANT_ID not configured"
    ELSE None

\* the error of the first failing check, or None
ValidationError(d, cfg) ==
    IF ~Truthy(d.student_uploaded_pdf_url)
    THEN "Missing required field: student_uploaded_pdf_url"
    ELSE IF ~Truthy(d.uid) THEN "Missing required field: uid"
    ELSE IF ~Truthy(cfg.VERTEX_AI_API_KEY) THEN "VERTEX_AI_API_KEY not configured"
    ELSE IF ~Truthy(cfg.OPENAI_API_KEY) \/ ~Truthy(cfg.OPENAI_ASSISTANT_ID)
         THEN "OPENAI_API_KEY or OPENAI_ASSISTANT_ID not configured"
    ELSE None

ProcessDataTask(d) ==
    /\ pc = "idle"
    /\ entry' = "task"
    /\ data' = d
    /\ taskDirExists' = TRUE
    /\ IF ValidationError(d, config) # None
       THEN /\ progress' = <<Report("starting")>>
            /\ taskResult' = TaskFailed(ValidationError(d, config))
            /\ pc' = "done"
       ELSE /\ progress' = <<Report("starting"), Report("downloading_pdf")>>
            /\ pc' = "download"
            /\ UNCHANGED taskResult
    /\ UNCHANGED <<config, otherVars, files, calls, ocr, detection, elapsed_time, status,
                   evaluation, validation, annotated_pdf_path, annotation, upload, delivery,
                   process_api, result>>

\* download_pdf, then the call of run_full_pipeline up to the OCR call
DownloadPdf(outcome) ==
    /\ pc = "download"
    /\ calls' = Inc("download")
    /\ IF outcome = "request_exception"
       THEN /\ taskResult' = TaskFailed("Failed to download PDF: RequestException")
            /\ taskDirExists' = FALSE
            /\ files' = cleanup_task_dir(files)
            /\ pc' = "done"
            /\ UNCHANGED progress
       ELSE IF outcome = "os_error"
       THEN /\ taskResult' = TaskFailed("OSError")
            /\ taskDirExists' = FALSE
            /\ files' = cleanup_task_dir(files)
            /\ pc' = "done"
            /\ UNCHANGED progress
       ELSE IF CallRaisesTypeError(TaskCallKeywords)
       THEN /\ taskResult' =
                TaskFailed("run_full_pipeline() got an unexpected keyword argument")
            /\ taskDirExists' = FALSE
            /\ files' = cleanup_task_dir(files \cup {"tmp/input.pdf"})
            /\ pc' = "done"
            /\ progress' = Append(progress, Report("pdf_downloaded"))
       ELSE /\ files' = files \cup {"tmp/input.pdf"}
            /\ progress' = progress \o <<Report("pdf_downloaded"), Report("ocr_starting")>>
            /\ pc' = "ocr"
            /\ UNCHANGED <<taskResult, taskDirExists>>
    /\ UNCHANGED <<entry, data, config, otherVars, ocr, detection, elapsed_time, status,
                   evaluation, validation, annotated_pdf_path, annotation, upload, delivery,
                   process_api, result>>

\* run_full_pipeline called by another caller of the processing package,
\* with the credentials of config.py, up to the OCR call
RunFullPipeline(uid) ==
    /\ pc = "idle"
    /\ entry' = "direct"
    /\ data' = [student_uploaded_pdf_url |-> None, uid |-> uid, model_answer_url |-> None]
    /\ progress' = <<Report("ocr_starting")>>
    /\ pc' = "ocr"
    /\ UNCHANGED <<config, otherVars, taskDirExists, files, calls, ocr, detection,
                   elapsed_time, status, evaluation, validation,
                   annotated_pdf_path, annotation, upload, delivery, process_api, result,
                   taskResult>>

(***************************************************************************)
(* STEP 1: OCR (DocumentProcessor.extract_text), the save of the OCR       *)
(* result and the parse of it for the empty-page detection.                *)
(***************************************************************************)
\* variant: the status of the response is not looked at
extract_text_ignores_status(outcome) ==
    outcome \in {"pdf_unreadable", "transport_error"}

\* extract_text raises: the PDF or the prompt cannot be read, session.post
\* raises, or the response is not ok
extract_text_raises(outcome) ==
    outcome \in {"pdf_unreadable", "transport_error", "not_ok"}

\* variant: a text that does not parse is passed on
safe_json_loads_never_raises(outcome) == FALSE

\* safe_json_loads(ocr_result) raises: the text does not parse, also after
\* sanitize_json_string
safe_json_loads_raises(outcome) == outcome = "broken"

\* normalize_ocr_data returns a dict
normalized_is_dict(outcome) == outcome # "not_object"

ExtractText(outcome) ==
    /\ pc = "ocr"
    /\ ocr' = outcome
    /\ calls' = IF outcome = "pdf_unreadable" THEN calls ELSE Inc("ocr")
    /\ IF extract_text_raises(outcome)
       THEN /\ PipelineFails(entry, "extract_text: " \o outcome, files)
            /\ UNCHANGED <<progress, detection>>
       ELSE LET fs == files \cup {OcrJson}
            IN  /\ progress' = progress \o <<Report("ocr_completed"),
                                               Report("checking_empty_pages")>>
                /\ IF safe_json_loads_raises(outcome)
                   THEN /\ PipelineFails(entry, "JSONDecodeError", fs)
                        /\ UNCHANGED detection
                   ELSE IF ~normalized_is_dict(outcome)
                   THEN /\ PipelineFails(entry, "AttributeError: no attribute 'get'", fs)
                        /\ UNCHANGED detection
                   ELSE /\ detection' \in DetectionOf(outcome)
                        /\ files' = fs
                        /\ Goto("telemetry_put")
    /\ UNCHANGED <<entry, data, config, otherVars, elapsed_time, status, evaluation,
                   validation, annotated_pdf_path, annotation, upload, delivery, process_api>>

(***************************************************************************)
(* STEP 1b/1c: telemetry, blank page insertion, margins, upload.           *)
(***************************************************************************)
\* from update_progress(44) to the first request of evaluate_text_assistant_ai
BeginEvaluation(prog, fs) ==
    /\ progress' = prog \o <<Report("blank_page_check_completed"),
                             Report("evaluation_starting")>>
    /\ IF ~Truthy(config.OPENAI_API_KEY) \/ ~Truthy(config.OPENAI_ASSISTANT_ID)
       THEN PipelineFails(entry,
                "OpenAI API key and Assistant ID are required for evaluation", fs)
       ELSE /\ files' = fs
            /\ Goto("eval_thread")

\* the PUT of is_summary_extra_page_inserted (its outcome is only logged),
\* then insert_blank_page_in_pdf and add_margins when a page is to be inserted
TelemetryPut(outcome, margins) ==
    /\ pc = "telemetry_put"
    /\ calls' = Inc("telemetry_put")
    /\ IF detection.insert_blank_page /\ PyTruthy(detection.blank_page_position)
       THEN LET fs == files \cup {"output/with_blank_page.pdf"}
                p == Append(progress, Report("adding_margins_and_uploading"))
            IN  /\ progress' = p
                /\ IF margins = "raises"
                   THEN PipelineFails(entry, "add_margins: ValueError", fs)
                   ELSE /\ files' = fs \cup {"output/with_blank_page_and_margins.pdf"}
                        /\ Goto("blank_upload")
       ELSE BeginEvaluation(progress, files)
    /\ UNCHANGED <<entry, data, config, otherVars, ocr, detection, elapsed_time, status,
                   evaluation, validation, annotated_pdf_path, annotation, upload, delivery,
                   process_api>>

\* upload_to_spaces of the copy with the blank page
BlankUpload(outcome) ==
    /\ pc = "blank_upload"
    /\ calls' = Inc("blank_upload")
    /\ IF outcome = "success"
       THEN /\ Goto("resized_put")
            /\ UNCHANGED <<progress, files>>
       ELSE BeginEvaluation(progress, files)
    /\ UNCHANGED <<entry, data, config, otherVars, ocr, detection, elapsed_time, status,
                   evaluation, validation, annotated_pdf_path, annotation, upload, delivery,
                   process_api>>

\* the PUT of resized_copy_url (its outcome is only logged)
ResizedPut(outcome) ==
    /\ pc = "resized_put"
    /\ calls' = Inc("resized_put")
    /\ BeginEvaluation(progress, files)
    /\ UNCHANGED <<entry, data, config, otherVars, ocr, detection, elapsed_time, status,
                   evaluation, validation, annotated_pdf_path, annotation, upload, delivery,
                   process_api>>

(***************************************************************************)
(* STEP 2: DocumentProcessor.evaluate_text_assistant_ai.                   *)
(***************************************************************************)
\* POST /v1/threads
EvalCreateThread(outcome) ==
    /\ pc = "eval_thread"
    /\ calls' = Inc("eval_thread")
    /\ IF outcome = "ok"
       THEN /\ Goto("eval_run")
            /\ UNCHANGED files
       ELSE PipelineFails(entry, "Thread creation failed: " \o outcome, files)
    /\ UNCHANGED <<entry, data, config, otherVars, progress, ocr, detection, elapsed_time,
                   status, evaluation, validation, annotated_pdf_path, annotation, upload,
                   delivery, process_api>>

\* POST /v1/threads/{thread_id}/runs
EvalCreateRun(outcome) ==
    /\ pc = "eval_run"
    /\ calls' = Inc("eval_run")
    /\ IF outcome = "ok"
       THEN /\ Goto("eval_poll")
            /\ elapsed_time' = 0
            /\ status' = None
            /\ UNCHANGED files
       ELSE /\ PipelineFails(entry, "Run creation failed: " \o outcome, files)
            /\ UNCHANGED <<elapsed_time, status>>
    /\ UNCHANGED <<entry, data, config, otherVars, progress, ocr, detection, evaluation,
                   validation, annotated_pdf_path, annotation, upload, delivery, process_api>>

\* the status after one poll: a response that is not ok, or a request
\* exception, leaves it as it was
status_after(st, outcome) ==
    IF outcome \in {"not_ok", "request_exception"} THEN st ELSE outcome

\* variant: the check after the loop rejects "failed" only
poll_verdict_rejects_failed_only(st, elapsed) ==
    IF st \in TerminalStatuses
    THEN (IF st # "failed" THEN "fetch_messages" ELSE "raise_status")
    ELSE IF elapsed >= max_wait_time THEN "raise_timeout"
    ELSE "poll_again"

\* variant: the budget test lets one more pass through
poll_verdict_one_more_pass(st, elapsed) ==
    IF st \in TerminalStatuses
    THEN (IF st = "completed" THEN "fetch_messages" ELSE "raise_status")
    ELSE IF elapsed > max_wait_time THEN "raise_timeout"
    ELSE "poll_again"

\* the head of the polling loop and the check after it
poll_verdict(st, elapsed) ==
    IF st \in TerminalStatuses
    THEN (IF st = "completed" THEN "fetch_messages" ELSE "raise_status")
    ELSE IF elapsed >= max_wait_time THEN "raise_timeout"
    ELSE "poll_again"

\* one pass of the polling loop: sleep, GET the run, back to the loop head.
\* The number of GETs made so far is elapsed_time \div poll_interval.  Past
\* the loop elapsed_time is never read again and the model drops it; a run
\* that raises out of the loop keeps the value it raised with.
EvalPoll(outcome) ==
    /\ pc = "eval_poll"
    /\ status' = status_after(status, outcome)
    /\ LET elapsed == elapsed_time + poll_interval
           verdict == poll_verdict(status', elapsed)
       IN  IF verdict = "poll_again"
           THEN /\ elapsed_time' = elapsed
                /\ Goto("eval_poll")
                /\ UNCHANGED files
           ELSE IF verdict = "fetch_messages"
           THEN /\ elapsed_time' = 0
                /\ Goto("eval_messages")
                /\ UNCHANGED files
           ELSE IF verdict = "raise_timeout"
           THEN /\ elapsed_time' = elapsed
                /\ PipelineFails(entry, "OpenAI Assistant timed out after "
                                      \o ToString(max_wait_time) \o " seconds", files)
           ELSE /\ elapsed_time' = elapsed
                /\ PipelineFails(entry, "Run did not complete successfully (status: "
                                      \o status' \o ")", files)
    /\ UNCHANGED <<entry, data, config, otherVars, progress, calls, ocr, detection, evaluation,
                   validation, annotated_pdf_path, annotation, upload, delivery, process_api>>

\* GET the messages, parse the answer, save and validate the evaluation
EvalMessages(outcome, ev) ==
    /\ pc = "eval_messages"
    /\ calls' = Inc("eval_messages")
    /\ IF outcome \in {"not_ok", "request_exception", "no_content"}
       THEN /\ PipelineFails(entry, "Failed to fetch messages: " \o outcome, files)
            /\ UNCHANGED <<evaluation, validation, progress>>
       ELSE LET got == IF outcome = "json" THEN ev ELSE EvalRaw
                v == validate_evaluation_json(got)
                fs == files \cup {EvaluationJson}
            IN  /\ evaluation' = got
                /\ validation' = [done |-> TRUE, raised |-> v.raised,
                                  is_valid |-> v.is_valid, errors |-> v.errors]
                /\ IF v.raised
                   THEN /\ PipelineFails(entry, "TypeError: argument is not iterable", fs)
                        /\ UNCHANGED progress
                   ELSE /\ progress' = progress \o <<Report("evaluation_completed"),
                                                      Report("annotation_starting")>>
                        /\ files' = fs
                        /\ Goto("annotate")
    /\ UNCHANGED <<entry, data, config, otherVars, ocr, detection, elapsed_time, status,
                   annotated_pdf_path, annotation, upload, delivery, process_api>>

(***************************************************************************)
(* STEP 3: annotation; STEP 3b: upload of the annotated PDF.               *)
(***************************************************************************)
\* variant: the except clause leaves annotated_pdf_path as it was
annotated_path_kept(outcome) == AnnotatedPdf

\* annotated_pdf_path after the try/except around annotate_pdf_with_comments
annotated_path_after(outcome) ==
    IF outcome = "ok" THEN AnnotatedPdf ELSE None

\* annotate_pdf_with_comments saves the file and then reports on stdout: it
\* may raise before the save, or after it
AnnotateOutcomes == {"ok", "raises", "raises_after_save"}

\* from update_progress(90) to the first PUT of send_evaluation_to_external_api
BeginDelivery(prog, fs) ==
    /\ progress' = Append(prog, Report("external_api_starting"))
    /\ delivery' = [attempt |-> 0, sent |-> <<>>, last_error |-> None,
                    success |-> FALSE, message |-> None,
                    payload_json |-> payload_json(data.uid, evaluation)]
    /\ files' = fs \cup {"output/debug_external_api_payload.json"}
    /\ Goto("delivery_put")

Annotate(outcome) ==
    /\ pc = "annotate"
    /\ calls' = Inc("annotate")
    /\ annotation' = outcome
    /\ annotated_pdf_path' = annotated_path_after(outcome)
    /\ LET fs == IF outcome = "raises" THEN files ELSE files \cup {AnnotatedPdf}
           p == Append(progress, Report("annotation_completed"))
       IN  IF annotated_pdf_path' # None /\ annotated_pdf_path' \in fs
           THEN /\ progress' = Append(p, Report("uploading_annotated_pdf"))
                /\ files' = fs
                /\ Goto("annotated_upload")
                /\ UNCHANGED delivery
           ELSE BeginDelivery(p, fs)
    /\ UNCHANGED <<entry, data, config, otherVars, ocr, detection, elapsed_time, status,
                   evaluation, validation, upload, process_api>>

\* upload_to_spaces of the annotated PDF: one call, its failure is logged
AnnotatedUpload(outcome) ==
    /\ pc = "annotated_upload"
    /\ calls' = Inc("annotated_upload")
    /\ IF outcome = "success"
       THEN /\ upload' = [upload EXCEPT !.annotated_pdf_url = "https://spaces/annotated.pdf"]
            /\ Goto("verified_put")
            /\ UNCHANGED <<progress, files, delivery>>
       ELSE /\ BeginDelivery(progress, files)
            /\ UNCHANGED upload
    /\ UNCHANGED <<entry, data, config, otherVars, ocr, detection, elapsed_time, status,
                   evaluation, validation, annotated_pdf_path, annotation, process_api>>

\* the PUT of verified_copy
VerifiedPut(outcome) ==
    /\ pc = "verified_put"
    /\ calls' = Inc("verified_put")
    /\ upload' = [upload EXCEPT !.verified_copy_api_success = (outcome = "200")]
    /\ BeginDelivery(progress, files)
    /\ UNCHANGED <<entry, data, config, otherVars, ocr, detection, elapsed_time, status,
                   evaluation, validation, annotated_pdf_path, annotation, process_api>>

(***************************************************************************)
(* STEP 4: send_evaluation_to_external_api and trigger_process_api.        *)
(***************************************************************************)
\* variant: the loop runs one attempt too many
send_evaluation_one_more(attempt, outcome) ==
    IF outcome = "200" THEN "return_success"
    ELSE IF attempt <= EXTERNAL_API_MAX_RETRIES THEN "retry"
    ELSE "return_failure"

\* what the retry loop does after attempt number `attempt` ended in `outcome`
send_evaluation_next(attempt, outcome) ==
    IF outcome = "200" THEN "return_success"
    ELSE IF attempt < EXTERNAL_API_MAX_RETRIES THEN "retry"
    ELSE "return_failure"

last_error_of(outcome) ==
    CASE outcome = "non200" -> "HTTP 500: error"
      [] outcome = "timeout" -> "Timeout: timed out"
      [] OTHER -> "Request error: connection failed"

\* variant: the trigger is not guarded
triggers_unguarded(external_api_success) == TRUE

\* if external_api_success: trigger_process_api(log)
triggers_process_api(external_api_success) == external_api_success

NotTriggered == [success |-> FALSE, message |-> None]

DeliveryPut(outcome) ==
    /\ pc = "delivery_put"
    /\ LET attempt == delivery.attempt + 1
           next == send_evaluation_next(attempt, outcome)
           d == [delivery EXCEPT
                    !.attempt = attempt,
                    !.sent = Append(@, delivery.payload_json),
                    !.last_error = IF outcome = "200" THEN @ ELSE last_error_of(outcome),
                    !.success = (next = "return_success"),
                    !.message = IF next = "return_success" THEN "Success"
                                ELSE last_error_of(outcome)]
       IN  /\ delivery' = d
           /\ IF next = "retry"
              THEN /\ Goto("delivery_put")
                   /\ UNCHANGED <<progress, files, process_api>>
              ELSE IF triggers_process_api(d.success)
              THEN /\ Goto("process_get")
                   /\ UNCHANGED <<progress, files, process_api>>
              ELSE /\ process_api' = NotTriggered
                   /\ progress' = Append(progress, Report("completed"))
                   /\ PipelineReturns(entry, CompletedResult(d, NotTriggered), files)
    /\ UNCHANGED <<entry, data, config, otherVars, calls, ocr, detection, elapsed_time,
                   status, evaluation, validation, annotated_pdf_path, annotation, upload>>

\* trigger_process_api: one GET, then the return of run_full_pipeline
ProcessGet(outcome) ==
    /\ pc = "process_get"
    /\ calls' = Inc("process_get")
    /\ LET proc == [success |-> (outcome = "200"),
                    message |-> IF outcome = "200" THEN "Success"
                                ELSE last_error_of(outcome)]
       IN  /\ process_api' = proc
           /\ progress' = Append(progress, Report("completed"))
           /\ PipelineReturns(entry, CompletedResult(delivery, proc), files)
    /\ UNCHANGED <<entry, data, config, otherVars, ocr, detection, elapsed_time, status,
                   evaluation, validation, annotated_pdf_path, annotation, upload, delivery>>

(***************************************************************************)
(* The specification.                                                      *)
(***************************************************************************)
NoCalls ==
    [c \in {"download", "ocr", "telemetry_put", "blank_upload", "resized_put",
            "eval_thread", "eval_run", "eval_messages", "annotate",
            "annotated_upload", "verified_put", "process_get"} |-> 0]

\* the state of the pipeline before a run starts
PipelineInit ==
    /\ pc = "idle"
    /\ entry = "none"
    /\ data = [student_uploaded_pdf_url |-> None, uid |-> None, model_answer_url |-> None]
    /\ config \in Configs
    /\ progress = <<>>
    /\ taskDirExists = FALSE
    /\ files = {}
    /\ calls = NoCalls
    /\ ocr = "unset"
    /\ detection = DetectionDefault
    /\ elapsed_time = 0
    /\ status = None
    /\ evaluation = JNull
    /\ validation = [done |-> FALSE, raised |-> FALSE, is_valid |-> FALSE, errors |-> <<>>]
    /\ annotation = "unset"
    /\ annotated_pdf_path = "unset"
    /\ upload = [annotated_pdf_url |-> None, verified_copy_api_success |-> FALSE]
    /\ delivery = [attempt |-> 0, sent |-> <<>>, last_error |-> None,
                   success |-> FALSE, message |-> None, payload_json |-> None]
    /\ process_api = NotTriggered
    /\ result = [status |-> "none"]
    /\ taskResult = [status |-> "none"]

\* no concurrent runs are followed
RunsIdle == runs = <<>>

GeometryIdle ==
    /\ src_doc = <<>>
    /\ pages_metadata = <<>>
    /\ pdf_box = <<>>
    /\ line_page = 0
    /\ normalized_coords = <<>>
    /\ pdf_coords = <<>>

SanitizerIdle ==
    /\ json_str = <<>> /\ sanitized = <<>> /\ loads = "none"
    /\ line_text = <<>> /\ sanitized_text = <<>>

CoordsIdle == ocr_result = <<>> /\ student_coords = <<>>

AnnotationIdle ==
    /\ empty_page_detection = <<>> /\ annot_evaluation = <<>>
    /\ pdf_for_annotation = <<>> /\ margin_doc = <<>> /\ doc = <<>>
    /\ comment_box = <<>> /\ annot_pc = "idle"

Init ==
    /\ PipelineInit /\ RunsIdle /\ GeometryIdle /\ SanitizerIdle
    /\ CoordsIdle /\ AnnotationIdle

Next ==
    \/ \E d \in Submissions : ProcessDataTask(d)
    \/ \E outcome \in DownloadOutcomes : DownloadPdf(outcome)
    \/ RunFullPipeline("u1")
    \/ \E outcome \in OcrOutcomes : ExtractText(outcome)
    \/ \E outcome \in PutOutcomes, margins \in {"ok", "raises"} :
            TelemetryPut(outcome, margins)
    \/ \E outcome \in UploadOutcomes : BlankUpload(outcome)
    \/ \E outcome \in PutOutcomes : ResizedPut(outcome)
    \/ \E outcome \in {"ok", "not_ok", "request_exception"} : EvalCreateThread(outcome)
    \/ \E outcome \in {"ok", "no_id", "not_ok", "request_exception"} :
            EvalCreateRun(outcome)
    \/ \E outcome \in PollOutcomes : EvalPoll(outcome)
    \/ \E outcome \in {"json", "not_json", "not_ok", "request_exception", "no_content"},
          i \in 1..Len(EvalCases) : EvalMessages(outcome, EvalCases[i])
    \/ \E outcome \in AnnotateOutcomes : Annotate(outcome)
    \/ \E outcome \in UploadOutcomes : AnnotatedUpload(outcome)
    \/ \E outcome \in PutOutcomes : VerifiedPut(outcome)
    \/ \E outcome \in PutOutcomes : DeliveryPut(outcome)
    \/ \E outcome \in PutOutcomes : ProcessGet(outcome)

Spec == Init /\ [][Next]_vars

(***************************************************************************)
(* Properties of a run.                                                    *)
(***************************************************************************)
\* what the properties read of the run
OcrFailed == ocr \in {"transport_error", "not_ok", "broken"}

OcrParsed ==
    /\ ocr \in {"no_text", "object", "repaired_object", "page_list",
                "wrapped_list", "not_object"}
    /\ OcrJson \in files

EvaluationTimedOut ==
    elapsed_time >= max_wait_time /\ status \notin TerminalStatuses

EvaluationEndedWithoutSuccess == status \in {"failed", "cancelled", "expired"}

EvaluationReturned == validation.done /\ EvaluationJson \in files

AnnotationRaised == annotation \in {"raises", "raises_after_save"}

NoEvaluationCall ==
    /\ calls.eval_thread = 0 /\ calls.eval_run = 0 /\ calls.eval_messages = 0
    /\ elapsed_time = 0

\* annotation, upload of the annotated PDF, delivery of the evaluation, trigger
NothingAfterEvaluation ==
    /\ calls.annotate = 0
    /\ calls.annotated_upload = 0 /\ calls.verified_put = 0
    /\ delivery.attempt = 0
    /\ calls.process_get = 0

\* C1: a run started by process_data_task with a valid submission (PDF URL
\* and uid present, credentials configured, with or without model_answer_url)
\* in which the download succeeds and no later step fails ends with status
\* 'completed', never 'failed'.
ValidTaskRunCompletes ==
    (/\ entry = "task" /\ pc = "done"
     /\ ValidationError(data, config) = None
     /\ Report("pdf_downloaded") \in {progress[i] : i \in 1..Len(progress)}
     /\ ~OcrFailed /\ ocr # "pdf_unreadable"
     /\ ~EvaluationTimedOut /\ ~EvaluationEndedWithoutSuccess
     /\ ~AnnotationRaised
     /\ (delivery.attempt > 0 => delivery.success))
    => taskResult.status = "completed"

\* C2: when the OCR call fails (transport error, error response, or a text
\* that does not parse after sanitization) run_full_pipeline has returned
\* 'failed' with the error message, and the run has called neither the
\* evaluation service nor annotation, upload, the delivery endpoint or the
\* process trigger.
OcrFailureAborts ==
    OcrFailed =>
        /\ pc = "done"
        /\ result.status = "failed"
        /\ result.error \in {"extract_text: transport_error",
                             "extract_text: not_ok", "JSONDecodeError"}
        /\ NoEvaluationCall
        /\ NothingAfterEvaluation
        /\ calls.telemetry_put = 0 /\ calls.blank_upload = 0
        /\ calls.resized_put = 0

OcrFailureReached ==
    /\ entry = "direct" /\ pc = "done"
    /\ ocr = "broken" /\ OcrJson \in files
    /\ result.status = "failed"

\* C3: when polling reaches its timeout without a terminal status, or the
\* evaluation run ends failed, cancelled or expired, the run has returned
\* 'failed' with the error message and has attempted neither annotation nor
\* the upload of the annotated PDF, the delivery of the evaluation or the
\* process trigger.
EvaluationFailureAborts ==
    (EvaluationTimedOut \/ EvaluationEndedWithoutSuccess) =>
        /\ pc = "done"
        /\ result.status = "failed"
        /\ result.error =
             IF EvaluationTimedOut
             THEN "OpenAI Assistant timed out after 600 seconds"
             ELSE "Run did not complete successfully (status: " \o status \o ")"
        /\ NothingAfterEvaluation

EvaluationTimeoutReached ==
    /\ pc = "done" /\ EvaluationTimedOut
    /\ status = "in_progress"
    /\ result.status = "failed"

\* C4: when annotate_pdf_with_comments raises, annotated_pdf_path is null, no
\* upload of the annotated PDF is attempted, the evaluation is sent to the
\* delivery endpoint, and the run returns 'completed' with annotated_pdf_path
\* null.
AnnotationFailureIsNotFatal ==
    AnnotationRaised =>
        /\ annotated_pdf_path = None
        /\ calls.annotated_upload = 0 /\ calls.verified_put = 0
        /\ pc \in {"delivery_put", "process_get", "done"}
        /\ pc = "done" =>
            /\ result.status = "completed"
            /\ result.annotated_pdf_path = None
            /\ result.annotated_pdf_url = None
            /\ delivery.attempt >= 1
            /\ delivery.sent[1] = payload_json(data.uid, evaluation)

AnnotationFailureReached ==
    /\ pc = "done" /\ annotation = "raises_after_save"
    /\ AnnotatedPdf \in files
    /\ result.status = "completed" /\ result.external_api_success

\* C5: send_evaluation_to_external_api makes at most 3 PUT attempts, each
\* with the same serialized payload, makes no attempt after the first 200,
\* and after 3 failed attempts returns failure: the run returns 'completed'
\* with external_api_success false and a message that is not null.
DeliveryRetriesAreBounded ==
    /\ delivery.attempt <= 3
    /\ Len(delivery.sent) = delivery.attempt
    /\ \A i \in 1..Len(delivery.sent) :
            delivery.sent[i] = payload_json(data.uid, evaluation)
    /\ delivery.success => pc # "delivery_put"
    /\ (pc = "delivery_put" /\ delivery.attempt > 0) => delivery.last_error # None
    /\ (pc = "done" /\ delivery.attempt > 0 /\ ~delivery.success) =>
            /\ delivery.attempt = 3
            /\ result.status = "completed"
            /\ result.external_api_success = FALSE
            /\ result.external_api_message # None

DeliveryExhaustedReached ==
    /\ pc = "done" /\ delivery.attempt = 3 /\ ~delivery.success
    /\ result.status = "completed"
    /\ result.external_api_message = "Timeout: timed out"

\* C6: the process trigger is called at most once in a run and only after
\* the delivery of the evaluation returned success; in every returned result
\* process_api_success implies external_api_success.
ProcessTriggerOnlyAfterDelivery ==
    /\ calls.process_get <= 1
    /\ (pc = "process_get" \/ calls.process_get > 0) => delivery.success
    /\ result.status = "completed" =>
            (result.process_api_success => result.external_api_success)

ProcessTriggerReached ==
    /\ pc = "done" /\ calls.process_get = 1
    /\ delivery.attempt = 2
    /\ result.process_api_success

\* C7: the evaluation service is called only after the OCR call has returned
\* and its result has been parsed; annotation and delivery start only after
\* the evaluation call has returned a result as well.
StepsAreOrdered ==
    /\ (pc \in {"eval_thread", "eval_run", "eval_poll", "eval_messages"}
        \/ calls.eval_thread > 0) => OcrParsed
    /\ (pc \in {"annotate", "annotated_upload", "verified_put", "delivery_put"}
        \/ calls.annotate > 0 \/ delivery.attempt > 0) =>
            OcrParsed /\ EvaluationReturned /\ calls.eval_messages = 1

StepsInOrderReached ==
    /\ ocr = "repaired_object" /\ calls.eval_messages = 1
    /\ calls.annotate = 1 /\ delivery.attempt = 1

\* C8: in every run the percentages handed to the progress sink never
\* decrease, and each is an integer in 0..100.
ProgressNeverDecreases ==
    /\ \A i \in 1..Len(progress) : progress[i][1] \in 0..100
    /\ \A i \in 1..(Len(progress) - 1) : progress[i][1] <= progress[i + 1][1]

ProgressToTheEndReached ==
    /\ pc = "done" /\ result.status = "completed"
    /\ \E i \in 1..(Len(progress) - 1) :
            /\ progress[i] = Report("evaluation_completed")
            /\ progress[i + 1] = Report("annotation_starting")
    /\ progress[Len(progress)] = Report("completed")
    /\ Report("adding_margins_and_uploading") \in {progress[i] : i \in 1..Len(progress)}

\* C9: process_data_task given a submission without student_uploaded_pdf_url
\* or without uid returns 'failed' with an error naming the missing field and
\* makes no download, no OCR call, no evaluation call and no delivery call.
MissingFieldIsRejected ==
    (entry = "task" /\ (~Truthy(data.student_uploaded_pdf_url) \/ ~Truthy(data.uid))) =>
        /\ pc = "done"
        /\ taskResult.status = "failed"
        /\ taskResult.error =
             IF ~Truthy(data.student_uploaded_pdf_url)
             THEN "Missing required field: student_uploaded_pdf_url"
             ELSE "Missing required field: uid"
        /\ calls = NoCalls
        /\ NoEvaluationCall
        /\ delivery.attempt = 0

MissingUidReached ==
    /\ entry = "task" /\ pc = "done"
    /\ data.student_uploaded_pdf_url = "https://host/answer.pdf"
    /\ data.uid = None
    /\ taskResult.status = "failed"

\* C10: validation findings never make a run fail: whatever evaluation the
\* evaluation service returned (fields missing, questions or comments of an
\* unexpected type), the run returns 'completed', and validation_errors of
\* the result is empty exactly when the evaluation passed validation.
ValidationNeverFailsRun ==
    (validation.done /\ pc = "done") =>
        /\ result.status = "completed"
        /\ (result.validation_errors = <<>>) <=> validation.is_valid

\* C11: validate_evaluation_json returns is_valid exactly when its error list
\* is empty; an evaluation complete except for a missing OverallSummary yields
\* exactly one error, which names OverallSummary; an evaluation with every
\* required field for each of 2 questions and a non-empty OverallSummary
\* yields no error.
ValidationIsComplete ==
    (validation.done /\ ~validation.raised) =>
        /\ validation.is_valid <=> (validation.errors = <<>>)
        /\ validation.errors = validate_evaluation_json(evaluation).errors
        /\ evaluation = EvalNoOverall =>
                validation.errors = <<"Missing 'OverallSummary' in evaluation">>
        /\ evaluation = EvalComplete =>
                validation.is_valid /\ Len(validation.errors) = 0

ValidationOfMissingOverallReached ==
    /\ validation.done /\ evaluation = EvalNoOverall
    /\ ~validation.is_valid /\ Len(validation.errors) = 1

\* the run has given up on the upload of the annotated PDF
AnnotatedUploadGivenUp ==
    /\ calls.annotated_upload > 0
    /\ upload.annotated_pdf_url = None
    /\ pc \in {"delivery_put", "process_get", "done"}

\* C12: when the upload of the annotated PDF to object storage fails it is
\* retried up to 3 attempts before it is given up, and giving up is not
\* fatal: the run still returns 'completed'.
AnnotatedUploadIsRetried ==
    AnnotatedUploadGivenUp =>
        /\ calls.annotated_upload = 3
        /\ pc = "done" => result.status = "completed"

\* giving up on the upload is not fatal
AnnotatedUploadFailureReached ==
    /\ AnnotatedUploadGivenUp /\ pc = "done"
    /\ calls.annotated_upload = 1
    /\ result.status = "completed" /\ result.annotated_pdf_url = None
    /\ result.annotated_pdf_path = AnnotatedPdf

(***************************************************************************)
(* Two runs at once.  Each worker executes its run sequentially; the runs  *)
(* share the output directory and the object storage.  A run is followed   *)
(* through the files and storage keys it writes, in program order.         *)
(***************************************************************************)
\* Celery task ids, one per run
TaskIds == <<"6f1c-t1", "9a2e-t2">>

Uids == {"u1", "u2"}

\* tasks.py: the task's temp directory and the downloaded PDF
task_dir(task_id) == "tmp/" \o task_id

input_pdf_path(task_id) == task_dir(task_id) \o "/" \o task_id \o "_input.pdf"

\* pipeline.py: the files of a run in the output directory
ocr_output_path(task_id) == "output/" \o task_id \o "_ocr.json"

evaluation_output_path(task_id) == "output/" \o task_id \o "_evaluation.json"

annotated_output_path(task_id) == "output/" \o task_id \o "_annotated.pdf"

modified_pdf_path(task_id) == "output/" \o task_id \o "_with_blank_page.pdf"

pdf_with_margins_path(task_id) ==
    "output/" \o task_id \o "_with_blank_page_and_margins.pdf"

debug_payload_path(uid) == "output/debug_external_api_payload_" \o uid \o ".json"

\* pipeline.py: the keys in object storage
destination_path(uid, task_id) ==
    "blank-page-pdfs/" \o uid \o "_" \o task_id \o "_with_blank_page.pdf"

annotated_destination_path(uid, task_id) ==
    "annotated-pdfs/" \o uid \o "_" \o task_id \o "_annotated.pdf"

RunWrites(r, p, fs, ks) ==
    runs' = [runs EXCEPT ![r].pc = p,
                         ![r].files = @ \cup fs,
                         ![r].keys = @ \cup ks]

\* process_data_task: the download, then the call of run_full_pipeline, which
\* raises for the keywords the task passes
RunDownload(r) ==
    /\ runs[r].pc = "start" /\ runs[r].entry = "task"
    /\ RunWrites(r, IF CallRaisesTypeError(TaskCallKeywords) THEN "done" ELSE "ocr",
                 {input_pdf_path(runs[r].task_id)}, {})
    /\ UNCHANGED <<pipelineVars, geometryVars, sanitizerVars, coordsVars, annotationVars>>

RunOcr(r) ==
    /\ \/ runs[r].pc = "start" /\ runs[r].entry = "direct"
       \/ runs[r].pc = "ocr"
    /\ RunWrites(r, "blank_page", {ocr_output_path(runs[r].task_id)}, {})
    /\ UNCHANGED <<pipelineVars, geometryVars, sanitizerVars, coordsVars, annotationVars>>

RunBlankPage(r, insert, uploaded) ==
    /\ runs[r].pc = "blank_page"
    /\ IF insert
       THEN RunWrites(r, "evaluation",
                      {modified_pdf_path(runs[r].task_id),
                       pdf_with_margins_path(runs[r].task_id)},
                      IF uploaded = "success"
                      THEN {destination_path(runs[r].uid, runs[r].task_id)} ELSE {})
       ELSE RunWrites(r, "evaluation", {}, {})
    /\ UNCHANGED <<pipelineVars, geometryVars, sanitizerVars, coordsVars, annotationVars>>

RunEvaluation(r) ==
    /\ runs[r].pc = "evaluation"
    /\ RunWrites(r, "annotate", {evaluation_output_path(runs[r].task_id)}, {})
    /\ UNCHANGED <<pipelineVars, geometryVars, sanitizerVars, coordsVars, annotationVars>>

RunAnnotate(r, outcome) ==
    /\ runs[r].pc = "annotate"
    /\ RunWrites(r, IF annotated_path_after(outcome) # None THEN "upload" ELSE "delivery",
                 IF outcome = "raises" THEN {}
                 ELSE {annotated_output_path(runs[r].task_id)}, {})
    /\ UNCHANGED <<pipelineVars, geometryVars, sanitizerVars, coordsVars, annotationVars>>

RunUploadAnnotated(r, uploaded) ==
    /\ runs[r].pc = "upload"
    /\ RunWrites(r, "delivery", {},
                 IF uploaded = "success"
                 THEN {annotated_destination_path(runs[r].uid, runs[r].task_id)}
                 ELSE {})
    /\ UNCHANGED <<pipelineVars, geometryVars, sanitizerVars, coordsVars, annotationVars>>

\* send_evaluation_to_external_api saves the payload before the first PUT
RunDelivery(r) ==
    /\ runs[r].pc = "delivery"
    /\ RunWrites(r, "done", {debug_payload_path(runs[r].uid)}, {})
    /\ UNCHANGED <<pipelineVars, geometryVars, sanitizerVars, coordsVars, annotationVars>>

\* a step of run_full_pipeline raises: the except handler returns
RunFails(r) ==
    /\ runs[r].pc \in {"blank_page", "evaluation"}
    /\ RunWrites(r, "done", {}, {})
    /\ UNCHANGED <<pipelineVars, geometryVars, sanitizerVars, coordsVars, annotationVars>>

TwoRunsInit ==
    /\ PipelineInit /\ config = ConfigAll /\ GeometryIdle /\ SanitizerIdle
    /\ CoordsIdle /\ AnnotationIdle
    /\ runs \in {<<[entry |-> e1, task_id |-> TaskIds[1], uid |-> u1,
                    pc |-> "start", files |-> {}, keys |-> {}],
                   [entry |-> e2, task_id |-> TaskIds[2], uid |-> u2,
                    pc |-> "start", files |-> {}, keys |-> {}]>> :
                    e1 \in {"task", "direct"}, e2 \in {"task", "direct"},
                    u1 \in Uids, u2 \in Uids}

TwoRunsNext ==
    \/ \E r \in 1..2 : RunDownload(r)
    \/ \E r \in 1..2 : RunOcr(r)
    \/ \E r \in 1..2, insert \in BOOLEAN, uploaded \in UploadOutcomes :
            RunBlankPage(r, insert, uploaded)
    \/ \E r \in 1..2 : RunEvaluation(r)
    \/ \E r \in 1..2, outcome \in AnnotateOutcomes : RunAnnotate(r, outcome)
    \/ \E r \in 1..2, uploaded \in UploadOutcomes : RunUploadAnnotated(r, uploaded)
    \/ \E r \in 1..2 : RunDelivery(r)
    \/ \E r \in 1..2 : RunFails(r)

TwoRunsSpec == TwoRunsInit /\ [][TwoRunsNext]_vars

\* C13: two concurrent runs with distinct task ids write disjoint sets of
\* local file paths and disjoint sets of object-storage keys, also when both
\* carry the same uid.
ConcurrentRunsWriteDisjointPaths ==
    (Len(runs) = 2 /\ runs[1].task_id # runs[2].task_id) =>
        /\ runs[1].files \cap runs[2].files = {}
        /\ runs[1].keys \cap runs[2].keys = {}

\* extract_text has returned and its text has been written to the OCR file
OcrArtifactWritten ==
    ocr \in {"no_text", "object", "repaired_object", "page_list",
             "wrapped_list", "not_object", "broken"}

\* C14: when a run fails after the OCR artifact has been written, the file
\* is left in place: the failed result reports its path, and neither the
\* except handler nor the task's cleanup of its temp directory removes it.
OcrArtifactIsKept ==
    OcrArtifactWritten =>
        /\ OcrJson \in files
        /\ OcrJson \in cleanup_task_dir(files)
        /\ result.status = "failed" => result.ocr_output_path = OcrJson

OcrArtifactKeptReached ==
    /\ pc = "done" /\ result.status = "failed"
    /\ EvaluationTimedOut
    /\ OcrArtifactWritten /\ result.ocr_output_path = OcrJson

\* the run has left evaluate_text_assistant_ai by a raise out of the polling loop
RaisedOutOfPolling == pc = "done" /\ elapsed_time > 0

\* C15: under any sequence of poll outcomes a failed poll alone never fails
\* the run; a poll that reports 'completed' within the budget leads on to the
\* result; and polling ends after at most 200 status requests, each pass of
\* the loop adding 3 s to a budget of 600 s.
PollingIsBounded ==
    /\ [](/\ elapsed_time \div poll_interval <= 200
          /\ pc = "eval_poll" => elapsed_time < max_wait_time
          /\ RaisedOutOfPolling =>
                \/ EvaluationEndedWithoutSuccess
                \/ elapsed_time = max_wait_time /\ status \notin TerminalStatuses
          /\ status = "completed" => ~RaisedOutOfPolling /\ pc # "eval_poll")
    /\ [][(pc = "eval_poll" /\ pc' = "eval_poll") =>
            /\ elapsed_time' = elapsed_time + 3
            /\ status' \notin TerminalStatuses]_vars

\* every one of the 200 polls failed
PollingExhaustedReached ==
    /\ RaisedOutOfPolling
    /\ elapsed_time \div poll_interval = 200
    /\ status = None
    /\ result.status = "failed"
    /\ result.error = "OpenAI Assistant timed out after 600 seconds"

(***************************************************************************)
(* Page geometry.  Python's float is modelled by exact fractions n/d with  *)
(* d > 0 in lowest terms: the page sizes, the scale, the offsets and the   *)
(* coordinates are computed by the code's own formulas, in the code's      *)
(* order.  Binary floating point differs from the exact value by parts in  *)
(* 10^13, which matters only for the direction of a tie in round.          *)
(***************************************************************************)
RECURSIVE Gcd(_, _)
Gcd(a, b) == IF b = 0 THEN a ELSE Gcd(b, a % b)

Abs(x) == IF x < 0 THEN -x ELSE x

Float(n, d) == LET g == Gcd(Abs(n), d) IN [n |-> n \div g, d |-> d \div g]

FMul(a, b) ==
    LET g1 == Gcd(Abs(a.n), b.d)
        g2 == Gcd(Abs(b.n), a.d)
    IN  Float((a.n \div g1) * (b.n \div g2), (a.d \div g2) * (b.d \div g1))

FDiv(a, b) ==
    FMul(a, IF b.n > 0 THEN [n |-> b.d, d |-> b.n] ELSE [n |-> -b.d, d |-> -b.n])

FAdd(a, b) ==
    LET g == Gcd(a.d, b.d)
    IN  Float(a.n * (b.d \div g) + b.n * (a.d \div g), (a.d \div g) * b.d)

FSub(a, b) == FAdd(a, [n |-> -b.n, d |-> b.d])

FAbs(a) == [n |-> Abs(a.n), d |-> a.d]

\* a <= b, compared through the sign of a - b
FLe(a, b) == FSub(a, b).n <= 0

FMin(a, b) == IF FLe(b, a) THEN b ELSE a

FMax(a, b) == IF FLe(a, b) THEN b ELSE a

\* round(x, 2): the nearest multiple of 0.01, a tie going to the even one
round2(x) ==
    LET c == FMul(x, Float(100, 1))
        q == c.n \div c.d
        r == c.n % c.d
        k == IF 2 * r < c.d THEN q
             ELSE IF 2 * r > c.d THEN q + 1
             ELSE IF q % 2 = 0 THEN q ELSE q + 1
    IN  Float(k, 100)

A4_WIDTH_PT == 595

A4_HEIGHT_PT == 842

TOLERANCE == 1

dpi == 200

\* Pixmap.width, Pixmap.height: the rendered size in whole pixels, rounded up
pix_size(pt) ==
    LET px == FMul(pt, Float(dpi, 72)) IN -((-px.n) \div px.d)

\* the slip of a strict comparison with the tolerance
is_a4_strictly_within(page_width, page_height) ==
    /\ ~FLe(Float(TOLERANCE, 1), FAbs(FSub(page_width, Float(A4_WIDTH_PT, 1))))
    /\ ~FLe(Float(TOLERANCE, 1), FAbs(FSub(page_height, Float(A4_HEIGHT_PT, 1))))

is_a4(page_width, page_height) ==
    /\ FLe(FAbs(FSub(page_width, Float(A4_WIDTH_PT, 1))), Float(TOLERANCE, 1))
    /\ FLe(FAbs(FSub(page_height, Float(A4_HEIGHT_PT, 1))), Float(TOLERANCE, 1))

\* the slip of filling the A4 page instead of fitting into it
fill_scale(scale_x, scale_y) == FMax(scale_x, scale_y)

\* the scale that fits the page on A4 and keeps its aspect ratio
fit_scale(scale_x, scale_y) == FMin(scale_x, scale_y)

\* the PageMetadata of one page: the body of the loop of _convert_pdf_to_images
PageMetadata(page_num, page_width, page_height) ==
    IF is_a4(page_width, page_height)
    THEN [page_number |-> page_num + 1,
          original_width_pt |-> page_width,
          original_height_pt |-> page_height,
          was_converted |-> FALSE,
          scale |-> Float(1, 1),
          x_offset_pt |-> Float(0, 1),
          y_offset_pt |-> Float(0, 1),
          image_width_px |-> pix_size(page_width),
          image_height_px |-> pix_size(page_height),
          dpi |-> dpi]
    ELSE LET scale_x == FDiv(Float(A4_WIDTH_PT, 1), page_width)
             scale_y == FDiv(Float(A4_HEIGHT_PT, 1), page_height)
             scale == fit_scale(scale_x, scale_y)
             new_width == FMul(page_width, scale)
             new_height == FMul(page_height, scale)
             x_offset == FDiv(FSub(Float(A4_WIDTH_PT, 1), new_width), Float(2, 1))
             y_offset == FDiv(FSub(Float(A4_HEIGHT_PT, 1), new_height), Float(2, 1))
         IN  [page_number |-> page_num + 1,
              original_width_pt |-> page_width,
              original_height_pt |-> page_height,
              was_converted |-> TRUE,
              scale |-> scale,
              x_offset_pt |-> x_offset,
              y_offset_pt |-> y_offset,
              image_width_px |-> pix_size(Float(A4_WIDTH_PT, 1)),
              image_height_px |-> pix_size(Float(A4_HEIGHT_PT, 1)),
              dpi |-> dpi]

\* the slip of reversing the scale before the padding is removed
clamped_pt_scale_first(norm, image_px, offset_pt, original_pt, m) ==
    LET px == FMul(norm, Float(image_px, 1))
        a4_pt == FMul(px, Float(72, m.dpi))
        pt == IF m.was_converted
              THEN FSub(FDiv(a4_pt, m.scale), offset_pt)
              ELSE a4_pt
    IN  FMax(Float(0, 1), FMin(pt, original_pt))

\* one coordinate of normalized_to_pdf_coords before the rounding
clamped_pt(norm, image_px, offset_pt, original_pt, m) ==
    LET px == FMul(norm, Float(image_px, 1))
        scale_px_to_pt == Float(72, m.dpi)
        a4_pt == FMul(px, scale_px_to_pt)
        pt == IF m.was_converted
              THEN FDiv(FSub(a4_pt, offset_pt), m.scale)
              ELSE a4_pt
    IN  FMax(Float(0, 1), FMin(pt, original_pt))

normalized_to_pdf_coords(nc, m) ==
    LET x1_pt == clamped_pt(nc[1], m.image_width_px, m.x_offset_pt, m.original_width_pt, m)
        y1_pt == clamped_pt(nc[2], m.image_height_px, m.y_offset_pt, m.original_height_pt, m)
        x2_pt == clamped_pt(nc[3], m.image_width_px, m.x_offset_pt, m.original_width_pt, m)
        y2_pt == clamped_pt(nc[4], m.image_height_px, m.y_offset_pt, m.original_height_pt, m)
    IN  <<round2(x1_pt), round2(y1_pt), round2(x2_pt), round2(y2_pt)>>

\* where a point of the original page lands on the rendered image, as a
\* fraction of the image: the target rectangle of show_pdf_page, then the
\* zoom of get_pixmap
image_fraction(pt, offset_pt, image_px, m) ==
    LET a4_pt == FAdd(FMul(pt, m.scale), offset_pt)
        px == FMul(a4_pt, Float(m.dpi, 72))
    IN  FDiv(px, Float(image_px, 1))

forward_image(box, m) ==
    <<image_fraction(box[1], m.x_offset_pt, m.image_width_px, m),
      image_fraction(box[2], m.y_offset_pt, m.image_height_px, m),
      image_fraction(box[3], m.x_offset_pt, m.image_width_px, m),
      image_fraction(box[4], m.y_offset_pt, m.image_height_px, m)>>

(***************************************************************************)
(* The inputs of the geometry: the page sizes of a source PDF (A4 exactly, *)
(* A4 as 210 x 297 mm, the tolerance's boundary and just beyond it, a      *)
(* 500 x 700 page, US letter, A4 landscape), the boxes an OCR answer can   *)
(* carry (inside and outside 0..1, in either order) and boxes on the       *)
(* original page.                                                          *)
(***************************************************************************)
MaxPages == 2

PageSizes ==
    {<<Float(595, 1), Float(842, 1)>>,
     <<Float(595276, 1000), Float(84189, 100)>>,
     <<Float(594, 1), Float(841, 1)>>,
     <<Float(596, 1), Float(843, 1)>>,
     <<Float(597, 1), Float(842, 1)>>,
     <<Float(595, 1), Float(840, 1)>>,
     <<Float(500, 1), Float(700, 1)>>,
     <<Float(612, 1), Float(792, 1)>>,
     <<Float(842, 1), Float(595, 1)>>}

SourceDocs == UNION {[1..n -> PageSizes] : n \in 1..MaxPages}

NormalizedValues == {Float(-1, 5), Float(1, 2), Float(11, 10), Float(3, 2), Float(2, 1)}

NormalizedBoxes ==
    {<<x1, y1, x2, y2>> : x1 \in NormalizedValues, y1 \in {Float(-1, 5), Float(1, 2)},
                          x2 \in {Float(1, 2), Float(2, 1)}, y2 \in NormalizedValues}

PageFractions == {Float(0, 1), Float(1, 3), Float(1, 1)}

PdfBoxes(m) ==
    {<<FMul(fx1, m.original_width_pt), FMul(fy1, m.original_height_pt),
       FMul(fx2, m.original_width_pt), FMul(fy2, m.original_height_pt)>> :
        fx1 \in PageFractions, fy1 \in PageFractions,
        fx2 \in PageFractions, fy2 \in PageFractions}

\* one pass of the loop over the pages of the source PDF
ConvertPage ==
    /\ Len(pages_metadata) < Len(src_doc)
    /\ LET page_num == Len(pages_metadata)
           src_page == src_doc[page_num + 1]
       IN  pages_metadata' =
               Append(pages_metadata, PageMetadata(page_num, src_page[1], src_page[2]))
    /\ UNCHANGED <<pipelineVars, runs, sanitizerVars, coordsVars, annotationVars, src_doc, pdf_box, line_page,
                   normalized_coords, pdf_coords>>

\* convert_ocr_result_coords maps the box of a line of a page; the model
\* follows one line, the function having no state
MapNormalizedBox(page_num, box) ==
    /\ Len(pages_metadata) = Len(src_doc)
    /\ pdf_coords = <<>>
    /\ page_num \in 1..Len(pages_metadata)
    /\ line_page' = page_num
    /\ normalized_coords' = box
    /\ pdf_coords' = normalized_to_pdf_coords(box, pages_metadata[page_num])
    /\ pdf_box' = <<>>
    /\ UNCHANGED <<pipelineVars, runs, sanitizerVars, coordsVars, annotationVars, src_doc, pages_metadata>>

\* the box of a line is the image of a box on the original page
MapImageOfPdfBox(page_num, box) ==
    /\ Len(pages_metadata) = Len(src_doc)
    /\ pdf_coords = <<>>
    /\ page_num \in 1..Len(pages_metadata)
    /\ line_page' = page_num
    /\ pdf_box' = box
    /\ normalized_coords' = forward_image(box, pages_metadata[page_num])
    /\ pdf_coords' = normalized_to_pdf_coords(forward_image(box, pages_metadata[page_num]),
                                              pages_metadata[page_num])
    /\ UNCHANGED <<pipelineVars, runs, sanitizerVars, coordsVars, annotationVars, src_doc, pages_metadata>>

GeometryInit ==
    /\ PipelineInit /\ config = ConfigAll /\ RunsIdle /\ SanitizerIdle
    /\ CoordsIdle /\ AnnotationIdle
    /\ src_doc \in SourceDocs
    /\ pages_metadata = <<>>
    /\ pdf_box = <<>>
    /\ line_page = 0
    /\ normalized_coords = <<>>
    /\ pdf_coords = <<>>

GeometryNext ==
    \/ ConvertPage
    \/ \E page_num \in 1..MaxPages, box \in NormalizedBoxes :
            MapNormalizedBox(page_num, box)
    \/ \E page_num \in 1..MaxPages :
            /\ page_num <= Len(pages_metadata)
            /\ pdf_coords = <<>>
            /\ \E box \in PdfBoxes(pages_metadata[page_num]) :
                    MapImageOfPdfBox(page_num, box)

GeometrySpec == GeometryInit /\ [][GeometryNext]_vars

\* the PageMetadata of the page of the line mapped
page_metadata == pages_metadata[line_page]

MappedBox == pdf_coords # <<>>

(***************************************************************************)
(* C16: for every normalized box, also one with coordinates below 0 or     *)
(* above 1, and every PageMetadata, converted to A4 or not, each           *)
(* coordinate normalized_to_pdf_coords returns lies on the original page:  *)
(* x1 and x2 in [0, original width], y1 and y2 in [0, original height].    *)
(***************************************************************************)
WithinPage(coords, m) ==
    /\ \A i \in {1, 3} : FLe(Float(0, 1), coords[i]) /\ FLe(coords[i], m.original_width_pt)
    /\ \A i \in {2, 4} : FLe(Float(0, 1), coords[i]) /\ FLe(coords[i], m.original_height_pt)

MappedBoxWithinPage ==
    (MappedBox /\ pdf_box = <<>>) => WithinPage(pdf_coords, page_metadata)

\* a box beyond the right and bottom edges of a page 595.276 points wide
BoxBeyondFractionalPageReached ==
    /\ MappedBox /\ pdf_box = <<>>
    /\ page_metadata.original_width_pt = Float(595276, 1000)
    /\ normalized_coords = <<Float(3, 2), Float(-1, 5), Float(2, 1), Float(11, 10)>>

(***************************************************************************)
(* C17: for every PageMetadata the normalisation produces, converted or    *)
(* not, and every box on the original page, mapping the image of the box   *)
(* (scaled and offset onto the A4 page, rendered at dpi, divided by the    *)
(* image's width and height) through normalized_to_pdf_coords gives each   *)
(* of the four coordinates back within 0.02 points, in its own position.   *)
(***************************************************************************)
WithinTolerance(a, b) == FLe(FAbs(FSub(a, b)), Float(2, 100))

RoundTripReproducesPdfBox ==
    (MappedBox /\ pdf_box # <<>>) =>
        \A i \in 1..4 : WithinTolerance(pdf_coords[i], pdf_box[i])

\* a box given right-to-left and bottom-to-top on a page scaled and padded
\* onto A4 comes back rounded, in the same order
ReversedBoxOnPaddedPageReached ==
    /\ MappedBox /\ pdf_box # <<>>
    /\ page_metadata.was_converted
    /\ page_metadata.y_offset_pt # Float(0, 1)
    /\ page_metadata.scale # Float(1, 1)
    /\ ~FLe(pdf_box[1], pdf_box[3]) /\ ~FLe(pdf_box[2], pdf_box[4])
    /\ pdf_coords = <<round2(pdf_box[1]), round2(pdf_box[2]),
                      round2(pdf_box[3]), round2(pdf_box[4])>>
    /\ pdf_coords # pdf_box

(***************************************************************************)
(* C18: a source page of 500 x 700 points is converted, with the scale     *)
(* min(595/500, 842/700) = 1.19 and the centring offsets                   *)
(* (595 - scale*500)/2 and (842 - scale*700)/2, the padding being equal on *)
(* the two opposite sides of each axis.  As stated, both offsets are       *)
(* nonzero; as the code computes them, the horizontal offset is 0, the     *)
(* width being the side that limits the scale, and the vertical one 4.5.   *)
(***************************************************************************)
Is500x700(m) ==
    m.original_width_pt = Float(500, 1) /\ m.original_height_pt = Float(700, 1)

\* the padding left after the scaled page and its leading offset
TrailingPadding(a4_pt, offset_pt, original_pt, m) ==
    FSub(FSub(Float(a4_pt, 1), offset_pt), FMul(original_pt, m.scale))

ScaledAndCentred(m) ==
    /\ m.was_converted
    /\ m.scale = Float(119, 100)
    /\ m.x_offset_pt =
           FDiv(FSub(Float(595, 1), FMul(m.scale, Float(500, 1))), Float(2, 1))
    /\ m.y_offset_pt =
           FDiv(FSub(Float(842, 1), FMul(m.scale, Float(700, 1))), Float(2, 1))
    /\ TrailingPadding(A4_WIDTH_PT, m.x_offset_pt, m.original_width_pt, m) = m.x_offset_pt
    /\ TrailingPadding(A4_HEIGHT_PT, m.y_offset_pt, m.original_height_pt, m) = m.y_offset_pt

\* the claim as stated: both offsets nonzero
Page500x700HasNonzeroOffsets ==
    \A i \in DOMAIN pages_metadata :
        Is500x700(pages_metadata[i]) =>
            /\ ScaledAndCentred(pages_metadata[i])
            /\ pages_metadata[i].x_offset_pt # Float(0, 1)
            /\ pages_metadata[i].y_offset_pt # Float(0, 1)

\* the claim as amended: the vertical offset alone is nonzero
Page500x700IsCentred ==
    \A i \in DOMAIN pages_metadata :
        Is500x700(pages_metadata[i]) =>
            /\ ScaledAndCentred(pages_metadata[i])
            /\ pages_metadata[i].x_offset_pt = Float(0, 1)
            /\ pages_metadata[i].y_offset_pt = Float(9, 2)

Page500x700Reached ==
    \E i \in DOMAIN pages_metadata :
        /\ Is500x700(pages_metadata[i])
        /\ pages_metadata[i].page_number = i

(***************************************************************************)
(* C19: every PageMetadata _convert_pdf_to_images emits has a scale above  *)
(* 0; it is unconverted exactly when the page's width is within 1 point of *)
(* 595 and its height within 1 point of 842, a difference of exactly 1     *)
(* point included; an unconverted page has scale 1.0 and both offsets 0;   *)
(* and the pages are numbered 1..N in the order of the source PDF.         *)
(***************************************************************************)
WithinOnePoint(pt, a4_pt) ==
    /\ FLe(Float(a4_pt - 1, 1), pt)
    /\ FLe(pt, Float(a4_pt + 1, 1))

PageMetadataIsConsistent ==
    /\ Len(pages_metadata) <= Len(src_doc)
    /\ \A i \in DOMAIN pages_metadata :
        LET m == pages_metadata[i] IN
        /\ m.scale.n > 0
        /\ (~m.was_converted) <=>
               (WithinOnePoint(src_doc[i][1], 595) /\ WithinOnePoint(src_doc[i][2], 842))
        /\ (~m.was_converted) =>
               /\ m.scale = Float(1, 1)
               /\ m.x_offset_pt = Float(0, 1)
               /\ m.y_offset_pt = Float(0, 1)
        /\ m.page_number = i
        /\ m.original_width_pt = src_doc[i][1]
        /\ m.original_height_pt = src_doc[i][2]

\* a page exactly 1 point larger than A4 on both sides, second of two pages
BoundaryPageUnconvertedReached ==
    /\ Len(src_doc) = 2 /\ Len(pages_metadata) = 2
    /\ src_doc[2] = <<Float(596, 1), Float(843, 1)>>
    /\ ~pages_metadata[2].was_converted
    /\ pages_metadata[1].was_converted
    /\ pages_metadata[2].page_number = 2

(***************************************************************************)
(* The repair of the OCR answer.  A text is a sequence of characters; the  *)
(* regular expressions of sanitize_json_string are matched character by    *)
(* character, leftmost first and greedily, as re does.  The model follows  *)
(* the text between the brackets of one "Coordinates" array: the three     *)
(* substitutions are applied to it in the code's order.                    *)
(***************************************************************************)
Digits == {"0", "1", "2", "3", "4", "5", "6", "7", "8", "9"}

\* [a-zA-Z]: the ASCII letters the inputs use
AsciiLetters == {"A", "a", "d", "o", "r", "t", "w"}

\* \s
Whitespace == {" ", "\n"}

\* a letter outside ASCII, such as a Devanagari one
Devanagari == "U+0935"

RECURSIVE RunEnd(_, _, _)
\* the index after the longest run of characters of C that starts at i
RunEnd(s, i, C) == IF i <= Len(s) /\ s[i] \in C THEN RunEnd(s, i + 1, C) ELSE i

At(s, i, c) == i <= Len(s) /\ s[i] = c

\* (\d+)\s+[a-zA-Z]+\s*,  matched at i: the index of its comma, or 0
Pattern1End(s, i) ==
    LET d == RunEnd(s, i, Digits)
        sp == RunEnd(s, d, Whitespace)
        l == RunEnd(s, sp, AsciiLetters)
        t == RunEnd(s, l, Whitespace)
    IN  IF d > i /\ sp > d /\ l > sp /\ At(s, t, ",") THEN t ELSE 0

RECURSIVE Pattern1Sub(_, _)
\* re.sub(pattern 1, r'\1.0,', s) from i on
Pattern1Sub(s, i) ==
    IF i > Len(s) THEN <<>>
    ELSE IF Pattern1End(s, i) > 0
         THEN SubSeq(s, i, RunEnd(s, i, Digits) - 1) \o <<".", "0", ",">>
                  \o Pattern1Sub(s, Pattern1End(s, i) + 1)
         ELSE <<s[i]>> \o Pattern1Sub(s, i + 1)

\* ,\s*[a-zA-Z_]+\s*,  matched at i: the index of its second comma, or 0
Pattern2End(s, i) ==
    LET a == RunEnd(s, i + 1, Whitespace)
        b == RunEnd(s, a, AsciiLetters \cup {"_"})
        c == RunEnd(s, b, Whitespace)
    IN  IF At(s, i, ",") /\ b > a /\ At(s, c, ",") THEN c ELSE 0

RECURSIVE Pattern2Sub(_, _)
\* re.sub(pattern 2, ', 0.0,', s) from i on
Pattern2Sub(s, i) ==
    IF i > Len(s) THEN <<>>
    ELSE IF Pattern2End(s, i) > 0
         THEN <<",", " ", "0", ".", "0", ",">> \o Pattern2Sub(s, Pattern2End(s, i) + 1)
         ELSE <<s[i]>> \o Pattern2Sub(s, i + 1)

RECURSIVE split(_, _, _)
\* content.split(','): cur is the part being read
split(s, i, cur) ==
    IF i > Len(s) THEN <<cur>>
    ELSE IF s[i] = "," THEN <<cur>> \o split(s, i + 1, <<>>)
    ELSE split(s, i + 1, Append(cur, s[i]))

RECURSIVE rstrip(_)
rstrip(s) == IF s # <<>> /\ s[Len(s)] \in Whitespace THEN rstrip(SubSeq(s, 1, Len(s) - 1)) ELSE s

\* part.strip()
strip(s) == rstrip(SubSeq(s, RunEnd(s, 1, Whitespace), Len(s)))

\* -?\d+\.?\d*  matched at i: the index after the match, or 0
NumberEnd(s, i) ==
    LET j == IF At(s, i, "-") THEN i + 1 ELSE i
        d == RunEnd(s, j, Digits)
    IN  IF d = j THEN 0
        ELSE IF At(s, d, ".") THEN RunEnd(s, d + 1, Digits) ELSE d

\* -?\d+\.\d*  matched at i: the index after the match, or 0
DecimalEnd(s, i) ==
    LET j == IF At(s, i, "-") THEN i + 1 ELSE i
        d == RunEnd(s, j, Digits)
    IN  IF d > j /\ At(s, d, ".") THEN RunEnd(s, d + 1, Digits) ELSE 0

\* part.split()[0] if part.split() else '', of a stripped part
first_word(part) == SubSeq(part, 1, RunEnd(part, 1, {c \in {part[k] : k \in DOMAIN part} : c \notin Whitespace}) - 1)

RECURSIVE search_number(_, _)
\* re.search(r'(-?\d+\.?\d*)', part) from i on: the match, or <<>>
search_number(part, i) ==
    IF i > Len(part) THEN <<>>
    ELSE IF NumberEnd(part, i) > 0 THEN SubSeq(part, i, NumberEnd(part, i) - 1)
    ELSE search_number(part, i + 1)

\* what fix_coordinates_array keeps of one part: <<the number>>, or <<>>
cleaned_part(p) ==
    LET part == strip(p) IN
    IF NumberEnd(part, 1) = Len(part) + 1
    THEN <<part>>
    ELSE IF first_word(part) # <<>> /\ DecimalEnd(first_word(part), 1) = Len(first_word(part)) + 1
    THEN IF NumberEnd(part, 1) > 0
         THEN <<SubSeq(part, 1, NumberEnd(part, 1) - 1)>>
         ELSE <<<<"0", ".", "0">>>>
    ELSE IF search_number(part, 1) # <<>>
    THEN <<search_number(part, 1)>>
    ELSE <<>>

RECURSIVE cleaned_parts(_)
cleaned_parts(parts) ==
    IF parts = <<>> THEN <<>>
    ELSE cleaned_part(Head(parts)) \o cleaned_parts(Tail(parts))

RECURSIVE padded(_)
\* while len(cleaned_parts) < 4: cleaned_parts.append('0.0')
padded(parts) == IF Len(parts) < 4 THEN padded(Append(parts, <<"0", ".", "0">>)) ELSE parts

\* the slip of leaving out the truncation
every_part(parts) == parts

\* cleaned_parts[:4]
first_four(parts) == SubSeq(parts, 1, 4)

RECURSIVE join(_)
\* ", ".join(parts)
join(parts) ==
    IF parts = <<>> THEN <<>>
    ELSE IF Len(parts) = 1 THEN Head(parts)
    ELSE Head(parts) \o <<",", " ">> \o join(Tail(parts))

fix_coordinates_array(content) ==
    join(first_four(padded(cleaned_parts(split(content, 1, <<>>)))))

\* the text of the array after the two substitutions that precede its repair
after_word_patterns(s) == Pattern2Sub(Pattern1Sub(s, 1), 1)

\* the array matches [^\]]+ when there is anything between its brackets
sanitize_json_string(s) ==
    IF after_word_patterns(s) = <<>> THEN <<>>
    ELSE fix_coordinates_array(after_word_patterns(s))

\* a number as json.loads reads it: -?(0|[1-9]\d*)(\.\d+)?
IsJsonNumber(t) ==
    LET j == IF At(t, 1, "-") THEN 2 ELSE 1
        d == RunEnd(t, j, Digits)
    IN  /\ d > j
        /\ At(t, j, "0") => d = j + 1
        /\ \/ d = Len(t) + 1
           \/ At(t, d, ".") /\ RunEnd(t, d + 1, Digits) > d + 1
                /\ RunEnd(t, d + 1, Digits) = Len(t) + 1

\* json.loads accepts the array
json_loads_parses(s) ==
    \A k \in DOMAIN split(s, 1, <<>>) : IsJsonNumber(strip(split(s, 1, <<>>)[k]))

(***************************************************************************)
(* The arrays of the OCR answer: up to MaxSlots slots, each a number, a    *)
(* number followed by a line break and Devanagari text, an ASCII word, a   *)
(* Devanagari word, a number followed by an ASCII word, or parenthetical   *)
(* text that holds a number.                                               *)
(***************************************************************************)
MaxSlots == 5

Slots ==
    {<<"0", ".", "2">>,
     <<" ", "0", ".", "6", "\n", " ", Devanagari, Devanagari>>,
     <<" ", "w", "o", "r", "d">>,
     <<" ", Devanagari, Devanagari>>,
     <<" ", "0", " ", "a", "w">>,
     <<" ", "(", "A", "r", "t", " ", "2", "9">>}

RECURSIVE comma_joined(_)
comma_joined(slots) ==
    IF Len(slots) = 1 THEN Head(slots)
    ELSE Head(slots) \o <<",">> \o comma_joined(Tail(slots))

CoordinateArrays ==
    {comma_joined(slots) : slots \in UNION {[1..n -> Slots] : n \in 1..MaxSlots}}

\* The two substitutions that come first run over the whole answer, the
\* "Text" values included; a quotation mark ends every match, so a value
\* is rewritten on its own.
\* safe_json_loads when the first json.loads succeeds
SafeJsonLoadsParses ==
    /\ loads = "none"
    /\ json_loads_parses(json_str)
    /\ loads' = "parsed"
    /\ UNCHANGED <<pipelineVars, runs, geometryVars, coordsVars, annotationVars, json_str, sanitized,
                   line_text, sanitized_text>>

\* safe_json_loads when it fails: sanitize, then json.loads again
SafeJsonLoadsSanitizes ==
    /\ loads = "none"
    /\ ~json_loads_parses(json_str)
    /\ sanitized' = sanitize_json_string(json_str)
    /\ sanitized_text' = after_word_patterns(line_text)
    /\ loads' = IF json_loads_parses(sanitize_json_string(json_str))
                THEN "repaired" ELSE "raises"
    /\ UNCHANGED <<pipelineVars, runs, geometryVars, coordsVars, annotationVars, json_str, line_text>>

SanitizerInit ==
    /\ PipelineInit /\ config = ConfigAll /\ RunsIdle /\ GeometryIdle
    /\ CoordsIdle /\ AnnotationIdle
    /\ json_str \in CoordinateArrays
    /\ sanitized = <<>>
    /\ loads = "none"
    /\ line_text = <<>>
    /\ sanitized_text = <<>>

SanitizerNext == SafeJsonLoadsParses \/ SafeJsonLoadsSanitizes

SanitizerSpec == SanitizerInit /\ [][SanitizerNext]_vars

(***************************************************************************)
(* C20: every "Coordinates" array that sanitize_json_string repairs is     *)
(* replaced by an array of exactly 4 numeric entries: the first numeric    *)
(* token of each comma-separated slot, in slot order, a slot without a     *)
(* numeric token being discarded, 0.0 filling the missing entries and the  *)
(* entries after the fourth being dropped.  As stated, the slots are those *)
(* of the array the sanitizer was given; as the code has it, they are the  *)
(* slots left by the two substitutions that come first, of which the       *)
(* second turns an ASCII word between two commas into 0.0.                 *)
(***************************************************************************)
Repaired == loads \in {"repaired", "raises"}

\* the entries of an array, and its slots
Entries(s) == [k \in DOMAIN split(s, 1, <<>>) |-> strip(split(s, 1, <<>>)[k])]

IsNumeric(t) == t # <<>> /\ NumberEnd(t, 1) = Len(t) + 1

\* the first numeric token of a slot, or <<>>
FirstNumericToken(slot) ==
    LET starts == {i \in DOMAIN slot : NumberEnd(slot, i) > 0} IN
    IF starts = {} THEN <<>>
    ELSE LET i == CHOOSE k \in starts : \A l \in starts : k <= l
         IN  SubSeq(slot, i, NumberEnd(slot, i) - 1)

RECURSIVE TokensKept(_)
TokensKept(slots) ==
    IF slots = <<>> THEN <<>>
    ELSE (IF FirstNumericToken(Head(slots)) = <<>> THEN <<>>
          ELSE <<FirstNumericToken(Head(slots))>>) \o TokensKept(Tail(slots))

\* the four entries the claim describes for an array of these slots
FourEntries(slots) ==
    [k \in 1..4 |-> IF k <= Len(TokensKept(slots)) THEN TokensKept(slots)[k]
                    ELSE <<"0", ".", "0">>]

RECURSIVE DigitsValue(_)
DigitsValue(t) ==
    IF t = <<>> THEN 0
    ELSE 10 * DigitsValue(SubSeq(t, 1, Len(t) - 1))
            + (CHOOSE v \in 0..9 : ToString(v) = t[Len(t)])

RECURSIVE PowerOfTen(_)
PowerOfTen(k) == IF k = 0 THEN 1 ELSE 10 * PowerOfTen(k - 1)

\* the value of a numeric token
NumberValue(t) ==
    LET j == IF At(t, 1, "-") THEN 2 ELSE 1
        d == RunEnd(t, j, Digits)
        whole == DigitsValue(SubSeq(t, j, d - 1))
        frac == SubSeq(t, d + 1, Len(t))
        magnitude == Float(whole * PowerOfTen(Len(frac)) + DigitsValue(frac),
                           PowerOfTen(Len(frac)))
    IN  IF j = 2 THEN [n |-> -magnitude.n, d |-> magnitude.d] ELSE magnitude

\* the claim as stated: the slots of the array as it was given
RepairKeepsFirstTokenOfGivenSlots ==
    Repaired =>
        /\ Len(Entries(sanitized)) = 4
        /\ \A k \in 1..4 :
            /\ IsNumeric(Entries(sanitized)[k])
            /\ NumberValue(Entries(sanitized)[k]) =
                   NumberValue(FourEntries(split(json_str, 1, <<>>))[k])

\* the claim as amended: the slots left by the first two substitutions
RepairKeepsFirstTokenOfSlots ==
    Repaired =>
        /\ Len(Entries(sanitized)) = 4
        /\ \A k \in DOMAIN Entries(sanitized) :
            /\ IsNumeric(Entries(sanitized)[k])
            /\ k <= 4 =>
                 Entries(sanitized)[k] =
                   FourEntries(split(after_word_patterns(json_str), 1, <<>>))[k]

\* five slots, two of them without a numeric token: both are discarded, the
\* three numbers keep their order and one entry is filled in
RepairDiscardedAndPaddedReached ==
    /\ Repaired
    /\ Len(split(json_str, 1, <<>>)) = 5
    /\ FirstNumericToken(split(json_str, 1, <<>>)[2]) = <<>>
    /\ Entries(sanitized) = <<<<"0", ".", "2">>, <<"0", ".", "6">>,
                              <<"2", "9">>, <<"0", ".", "0">>>>

(***************************************************************************)
(* An OCR answer with prose: one line with its "Text" value and its        *)
(* "Coordinates" array.                                                    *)
(***************************************************************************)
MaxTextSlots == 2

LineTexts ==
    {<<"a", " ", "w", "o", "r", "d">>,
     <<"A", "r", "t", " ", "2", "9", ",", " ", "A", "r", "t", " ", "3", "0">>,
     <<"a", "t", " ", "2", "9", " ", "w", "o", "r", "d", ",", " ", "a", "d">>,
     <<"r", "a", "t", ",", " ", "w", "a", "r", ",", " ", "d", "o", "t">>}

AnswerInit ==
    /\ PipelineInit /\ config = ConfigAll /\ RunsIdle /\ GeometryIdle
    /\ CoordsIdle /\ AnnotationIdle
    /\ json_str \in {comma_joined(slots) :
                        slots \in UNION {[1..n -> Slots] : n \in 1..MaxTextSlots}}
    /\ line_text \in LineTexts
    /\ sanitized = <<>>
    /\ sanitized_text = <<>>
    /\ loads = "none"

AnswerSpec == AnswerInit /\ [][SanitizerNext]_vars

(***************************************************************************)
(* C21: the sanitizer changes nothing outside the coordinate arrays: the   *)
(* "Text" value of a line is the same in the result of                     *)
(* sanitize_json_string as in its argument, and an answer that parses is   *)
(* returned as parsed, no repair applied.                                  *)
(***************************************************************************)
SanitizerLeavesTextAlone ==
    /\ Repaired => sanitized_text = line_text
    /\ loads = "parsed" => sanitized = <<>> /\ sanitized_text = <<>>

\* a year followed by a word and a comma, in the text of a line that is repaired
TextWithNumberAndWordReached ==
    /\ Repaired
    /\ line_text = <<"a", "t", " ", "2", "9", " ", "w", "o", "r", "d", ",", " ", "a", "d">>
    /\ sanitized_text = <<"a", "t", " ", "2", "9", ".", "0", ",", " ", "a", "d">>

(***************************************************************************)
(* C28: when the OCR service answers 2xx with a body that carries no       *)
(* extractable text (no candidates[0].content.parts[0].text), the run is   *)
(* reported failed and the evaluation service is never called.             *)
(***************************************************************************)
NoTextOcrAborts ==
    ocr = "no_text" =>
        /\ NoEvaluationCall
        /\ pc = "done" => result.status = "failed"

\* the response without text was saved as the OCR result and evaluated
NoTextOcrEvaluatedReached ==
    /\ ocr = "no_text"
    /\ OcrJson \in files
    /\ calls.eval_thread = 1 /\ calls.eval_run = 1 /\ calls.eval_messages = 1
    /\ EvaluationReturned

(***************************************************************************)
(* C30: on every return path of process_data_task (input rejected,         *)
(* credentials missing, download failed, pipeline completed or failed,     *)
(* unexpected exception) the directory tmp/<task_id> made at the start of  *)
(* the task no longer exists when the task returns.                        *)
(***************************************************************************)
TaskDirRemovedOnReturn ==
    (entry = "task" /\ pc = "done") => ~taskDirExists

\* a submission without uid is rejected and the directory stays
RejectedTaskLeavesDirReached ==
    /\ entry = "task" /\ pc = "done"
    /\ taskResult.error = "Missing required field: uid"
    /\ taskDirExists

(***************************************************************************)
(* The coordinates sent to the evaluation.  extract_text parses the text   *)
(* the OCR service answered, converts the coordinates of its lines and     *)
(* serialises the result; run_full_pipeline hands that string to the       *)
(* evaluation as the student's coordinates.  The answer is an object with  *)
(* a "Pages" key, a list of page objects, or a one-element list holding    *)
(* the object; the lines of a page stand for the lines of all its blocks.  *)
(***************************************************************************)
OcrShapes == {"object", "page_list", "wrapped_list"}

MaxOcrPages == 2

\* a 4-entry array, an array that maps to a clamped box, and a 3-entry array
LineCoordinates ==
    {<<Float(1, 10), Float(1, 5), Float(1, 2), Float(3, 5)>>,
     <<Float(0, 1), Float(1, 2), Float(1, 1), Float(3, 2)>>,
     <<Float(1, 10), Float(1, 5), Float(1, 2)>>}

OcrPages ==
    {[Page_Number |-> n,
      Lines |-> <<[Coordinates |-> c, Coordinates_Normalized |-> <<>>]>>] :
        n \in 1..(MaxOcrPages + 1), c \in LineCoordinates}

OcrResults ==
    {[shape |-> s, Pages |-> p] :
        s \in OcrShapes, p \in UNION {[1..n -> OcrPages] : n \in 1..MaxOcrPages}}

CoordsDocs ==
    {<<<<Float(595, 1), Float(842, 1)>>>>,
     <<<<Float(500, 1), Float(700, 1)>>, <<Float(612, 1), Float(792, 1)>>>>}

\* metadata_by_page.get(page_num): the metadata of a page, or <<>>
metadata_by_page(metadata, page_num) ==
    IF \E k \in DOMAIN metadata : metadata[k].page_number = page_num
    THEN metadata[CHOOSE k \in DOMAIN metadata : metadata[k].page_number = page_num]
    ELSE <<>>

converted_line(line, metadata) ==
    IF Len(line.Coordinates) = 4
    THEN [Coordinates |-> normalized_to_pdf_coords(line.Coordinates, metadata),
          Coordinates_Normalized |-> line.Coordinates]
    ELSE line

converted_page(page, metadata) ==
    IF metadata_by_page(metadata, page.Page_Number) = <<>> THEN page
    ELSE [page EXCEPT !.Lines =
            [k \in DOMAIN page.Lines |->
                converted_line(page.Lines[k],
                               metadata_by_page(metadata, page.Page_Number))]]

\* "Pages" is a key of the object only: of a list it is not a member
convert_ocr_result_coords(parsed, metadata) ==
    IF parsed.shape # "object" THEN parsed
    ELSE [parsed EXCEPT !.Pages =
            [k \in DOMAIN parsed.Pages |-> converted_page(parsed.Pages[k], metadata)]]

ExtractTextCoords ==
    /\ Len(pages_metadata) = Len(src_doc)
    /\ student_coords = <<>>
    /\ student_coords' = convert_ocr_result_coords(ocr_result, pages_metadata)
    /\ UNCHANGED <<pipelineVars, runs, geometryVars, sanitizerVars, annotationVars,
                   ocr_result>>

CoordsInit ==
    /\ PipelineInit /\ config = ConfigAll /\ RunsIdle /\ SanitizerIdle /\ AnnotationIdle
    /\ src_doc \in CoordsDocs
    /\ pages_metadata = <<>>
    /\ pdf_box = <<>>
    /\ line_page = 0
    /\ normalized_coords = <<>>
    /\ pdf_coords = <<>>
    /\ ocr_result \in OcrResults
    /\ student_coords = <<>>

CoordsNext ==
    \/ ConvertPage
    \/ ExtractTextCoords

CoordsSpec == CoordsInit /\ [][CoordsNext]_vars

(***************************************************************************)
(* C27: for every shape of the OCR answer the pipeline accepts, the        *)
(* coordinates sent to the evaluation carry, for each line with a 4-entry  *)
(* "Coordinates" array on a page that has metadata, the mapped box in      *)
(* "Coordinates" and the original values in "Coordinates_Normalized".      *)
(***************************************************************************)
CoordsSent == student_coords # <<>>

SentCoordinatesAreMapped ==
    CoordsSent =>
        \A p \in DOMAIN ocr_result.Pages :
            \A l \in DOMAIN ocr_result.Pages[p].Lines :
                LET given == ocr_result.Pages[p].Lines[l]
                    sent == student_coords.Pages[p].Lines[l]
                    metadata == metadata_by_page(pages_metadata,
                                                 ocr_result.Pages[p].Page_Number)
                IN  (Len(given.Coordinates) = 4 /\ metadata # <<>>) =>
                        /\ sent.Coordinates =
                               normalized_to_pdf_coords(given.Coordinates, metadata)
                        /\ sent.Coordinates_Normalized = given.Coordinates

\* a list of pages whose line, on a page with metadata, is sent as it came
PageListSentUnmappedReached ==
    /\ CoordsSent
    /\ ocr_result.shape = "page_list"
    /\ ocr_result.Pages[1].Page_Number = 1
    /\ Len(ocr_result.Pages[1].Lines[1].Coordinates) = 4
    /\ student_coords.Pages[1].Lines[1].Coordinates =
           ocr_result.Pages[1].Lines[1].Coordinates
    /\ student_coords.Pages[1].Lines[1].Coordinates_Normalized = <<>>

(***************************************************************************)
(* The blank-page step and the annotation.  run_full_pipeline reads the    *)
(* empty_page_detection record of the OCR result, inserts a blank A4 page  *)
(* when it says so and makes a copy with margins for upload; then          *)
(* annotate_pdf_with_comments widens every page, draws the score, the      *)
(* comments and the summary of each question and the overall summary, and  *)
(* saves the document.  A page is a record of the original page it came    *)
(* from (0 for the inserted page), its size and what is drawn on it; a     *)
(* text is the sequence of the lengths of its words; the evaluation has    *)
(* one question with one comment.                                          *)
(***************************************************************************)
A4_WIDTH == 595
A4_HEIGHT == 842
RIGHT_MARGIN == 180
BOTTOM_MARGIN == 72
box_width == 170

MaxDocPages == 2
MaxPosition == 3

\* the PDF of the task: pages with scanned content, of A4 size or, in a PDF
\* of one page, of a small size
OriginalPage(k, width, height) ==
    [origin |-> k, blank |-> FALSE, width |-> width, height |-> height]

SmallPage == OriginalPage(1, 300, 200)

OriginalPdfs ==
    {[k \in 1..n |-> OriginalPage(k, A4_WIDTH, A4_HEIGHT)] : n \in 1..MaxDocPages}
        \cup {<<SmallPage>>}

\* the record of the OCR result; position 0 stands for a position that is absent
Detections ==
    [insert_blank_page : BOOLEAN,
     blank_page_position : 0..MaxPosition,
     case_applied : {0, 1, 2},
     summary_page_position : 0..MaxPosition]

ShortText == <<5>>
ThreeWords == <<10, 10, 10>>
LongText == [i \in 1..22 |-> 9]

AnnotComments ==
    {[page |-> 1, y1 |-> 100, comment |-> ShortText],
     [page |-> 2, y1 |-> 100, comment |-> ShortText],
     [page |-> 1, y1 |-> 850, comment |-> ShortText],
     [page |-> 1, y1 |-> 100, comment |-> ThreeWords],
     [page |-> 1, y1 |-> 100, comment |-> LongText],
     [page |-> 1, y1 |-> 100, comment |-> <<>>]}

AnnotEvaluations ==
    {[Score |-> "7", Pages |-> [first |-> f, last |-> l], Comment |-> c,
      Summary |-> ShortText, OverallSummary |-> <<ShortText>>] :
        f \in 1..MaxDocPages, l \in 1..MaxDocPages, c \in AnnotComments}

\* len(text) of a text whose words are separated by single spaces
RECURSIVE WordsLen(_)
WordsLen(words) ==
    IF words = <<>> THEN 0
    ELSE Head(words) + (IF Len(words) > 1 THEN 1 ELSE 0) + WordsLen(Tail(words))

\* the word-by-word wrapper: the number of lines it produces
comment_fits(test_line) == test_line * 9 < box_width - 10

RECURSIVE wrap(_, _, _)
wrap(words, current_line, lines) ==
    IF words = <<>> THEN lines + (IF current_line > 0 THEN 1 ELSE 0)
    ELSE LET word == Head(words)
             test_line == IF current_line > 0 THEN current_line + 1 + word ELSE word
         IN  IF comment_fits(test_line) THEN wrap(Tail(words), test_line, lines)
             ELSE wrap(Tail(words), word, lines + (IF current_line > 0 THEN 1 ELSE 0))

chars_per_line == box_width \div 9

Max(a, b) == IF a >= b THEN a ELSE b

num_lines(comment_text) == Max(1, WordsLen(comment_text) \div chars_per_line + 1)

box_height(comment_text) == num_lines(comment_text) * 20 + 15

\* the box of a comment on a page: shifted upwards when it passes the bottom
CommentBox(y1, comment_text, page_height) ==
    LET moved == y1 + box_height(comment_text) > page_height - 5
        box_y1 == IF moved THEN Max(5, page_height - box_height(comment_text) - 5)
                  ELSE y1
    IN  [page_height |-> page_height,
         box_y1 |-> box_y1,
         box_y2 |-> box_y1 + box_height(comment_text),
         lines |-> wrap(comment_text, 0, 0),
         drawn_lines |-> 0]

\* the lines of a box that are drawn: a line needs y_offset + 10 < box_y2
RECURSIVE lines_drawn(_, _, _)
lines_drawn(lines, y_offset, box_y2) ==
    IF lines = 0 THEN 0
    ELSE IF y_offset + 10 < box_y2
         THEN 1 + lines_drawn(lines - 1, y_offset + 20, box_y2)
         ELSE lines_drawn(lines - 1, y_offset, box_y2)

\* insert_blank_page_in_pdf: the index is held within the document
insert_blank_page_in_pdf(pdf, position) ==
    LET insert_index == IF position - 1 < 0 THEN 0
                        ELSE IF position - 1 > Len(pdf) THEN Len(pdf)
                        ELSE position - 1
    IN  SubSeq(pdf, 1, insert_index)
            \o <<[origin |-> 0, blank |-> TRUE, width |-> A4_WIDTH, height |-> A4_HEIGHT]>>
            \o SubSeq(pdf, insert_index + 1, Len(pdf))

is_existing_page_for_summary ==
    empty_page_detection.case_applied = 1 /\ ~empty_page_detection.insert_blank_page

\* something drawn: its kind, the page number it was given and whether the
\* title of the overall summary comes with it
Mark(kind, page, title) == [kind |-> kind, page |-> page, title |-> title]

Drawn(pages, k, mark) ==
    [pages EXCEPT ![k].drawn = pages[k].drawn \cup {mark}]

AnnotationFrame == UNCHANGED <<pipelineVars, runs, geometryVars, sanitizerVars, coordsVars>>

InsertBlankPage ==
    /\ annot_pc = "start"
    /\ IF empty_page_detection.insert_blank_page
          /\ empty_page_detection.blank_page_position # 0
       THEN /\ pdf_for_annotation' =
                   insert_blank_page_in_pdf(pdf_for_annotation,
                                            empty_page_detection.blank_page_position)
            /\ annot_pc' = "add_margins"
       ELSE /\ annot_pc' = "annotate"
            /\ UNCHANGED pdf_for_annotation
    /\ UNCHANGED <<empty_page_detection, annot_evaluation, margin_doc, doc, comment_box>>
    /\ AnnotationFrame

\* add_margins copies the content of every page; copying a page without
\* content is up to the library, which either shows nothing or raises
AddMargins(show_pdf_page) ==
    /\ annot_pc = "add_margins"
    /\ LET blanks == {k \in DOMAIN pdf_for_annotation : pdf_for_annotation[k].blank}
           last == IF show_pdf_page = "raises"
                   THEN CHOOSE k \in blanks : \A l \in blanks : k <= l
                   ELSE Len(pdf_for_annotation)
       IN  /\ show_pdf_page = "raises" => blanks # {}
           /\ margin_doc' =
                 [k \in 1..last |->
                     [origin |-> pdf_for_annotation[k].origin,
                      width |-> pdf_for_annotation[k].width + RIGHT_MARGIN,
                      height |-> pdf_for_annotation[k].height + BOTTOM_MARGIN,
                      copy_attempted |-> TRUE]]
    /\ annot_pc' = IF show_pdf_page = "raises" THEN "failed" ELSE "annotate"
    /\ UNCHANGED <<empty_page_detection, annot_evaluation, pdf_for_annotation, doc,
                   comment_box>>
    /\ AnnotationFrame

\* the expansion of annotate_pdf_with_comments: a blank page is not copied
ExpandMargins ==
    /\ annot_pc = "annotate"
    /\ doc' = [k \in DOMAIN pdf_for_annotation |->
                  [origin |-> pdf_for_annotation[k].origin,
                   width |-> pdf_for_annotation[k].width + RIGHT_MARGIN,
                   height |-> pdf_for_annotation[k].height + BOTTOM_MARGIN,
                   copy_attempted |-> ~pdf_for_annotation[k].blank,
                   drawn |-> {}]]
    /\ annot_pc' = "score"
    /\ UNCHANGED <<empty_page_detection, annot_evaluation, pdf_for_annotation, margin_doc,
                   comment_box>>
    /\ AnnotationFrame

DrawOutcomes == {"ok", "ValueError", "raises"}

\* the score: the only drawing in a try, which catches ValueError and TypeError
DrawScore(outcome) ==
    /\ annot_pc = "score"
    /\ LET score_page_num == annot_evaluation.Pages.first - 1 IN
       IF annot_evaluation.Score # "" /\ 0 <= score_page_num /\ score_page_num < Len(doc)
       THEN CASE outcome = "ok" ->
                    /\ doc' = Drawn(doc, score_page_num + 1,
                                    Mark("score", annot_evaluation.Pages.first, FALSE))
                    /\ annot_pc' = "comment"
              [] outcome = "ValueError" -> annot_pc' = "comment" /\ UNCHANGED doc
              [] OTHER -> annot_pc' = "raised" /\ UNCHANGED doc
       ELSE outcome = "ok" /\ annot_pc' = "comment" /\ UNCHANGED doc
    /\ UNCHANGED <<empty_page_detection, annot_evaluation, pdf_for_annotation, margin_doc,
                   comment_box>>
    /\ AnnotationFrame

DrawComment(outcome) ==
    /\ annot_pc = "comment"
    /\ LET comment_data == annot_evaluation.Comment
           page_num == comment_data.page - 1
       IN  IF comment_data.comment # <<>> /\ page_num >= 0 /\ page_num < Len(doc)
           THEN LET box == CommentBox(comment_data.y1, comment_data.comment,
                                      doc[page_num + 1].height)
                    drawn_lines == lines_drawn(box.lines, box.box_y1 + 20, box.box_y2)
                IN  CASE outcome = "ok" ->
                            /\ comment_box' = [box EXCEPT !.drawn_lines = drawn_lines]
                            /\ doc' = Drawn(doc, page_num + 1,
                                            Mark("comment", comment_data.page, FALSE))
                            /\ annot_pc' = "summary"
                      [] OTHER ->
                            /\ comment_box' = box
                            /\ annot_pc' = "raised"
                            /\ UNCHANGED doc
           ELSE outcome = "ok" /\ annot_pc' = "summary" /\ UNCHANGED <<doc, comment_box>>
    /\ UNCHANGED <<empty_page_detection, annot_evaluation, pdf_for_annotation, margin_doc>>
    /\ AnnotationFrame

DrawSummary(outcome) ==
    /\ annot_pc = "summary"
    /\ LET page_num == annot_evaluation.Pages.last - 1 IN
       IF annot_evaluation.Summary # <<>> /\ page_num >= 0 /\ page_num < Len(doc)
       THEN CASE outcome = "ok" ->
                    /\ doc' = Drawn(doc, page_num + 1,
                                    Mark("summary", annot_evaluation.Pages.last, FALSE))
                    /\ annot_pc' = "overall_summary"
              [] OTHER -> annot_pc' = "raised" /\ UNCHANGED doc
       ELSE outcome = "ok" /\ annot_pc' = "overall_summary" /\ UNCHANGED doc
    /\ UNCHANGED <<empty_page_detection, annot_evaluation, pdf_for_annotation, margin_doc,
                   comment_box>>
    /\ AnnotationFrame

\* the overall summary: with its title unless an existing page is used
DrawOverallSummary(outcome) ==
    /\ annot_pc = "overall_summary"
    /\ LET summary_page_idx == empty_page_detection.summary_page_position - 1 IN
       IF /\ annot_evaluation.OverallSummary # <<>>
          /\ empty_page_detection.summary_page_position # 0
          /\ 0 <= summary_page_idx /\ summary_page_idx < Len(doc)
       THEN CASE outcome = "ok" ->
                    /\ doc' = Drawn(doc, summary_page_idx + 1,
                                    Mark("overall_summary",
                                         empty_page_detection.summary_page_position,
                                         ~is_existing_page_for_summary))
                    /\ annot_pc' = "save"
              [] OTHER -> annot_pc' = "raised" /\ UNCHANGED doc
       ELSE outcome = "ok" /\ annot_pc' = "save" /\ UNCHANGED doc
    /\ UNCHANGED <<empty_page_detection, annot_evaluation, pdf_for_annotation, margin_doc,
                   comment_box>>
    /\ AnnotationFrame

SaveAnnotated ==
    /\ annot_pc = "save"
    /\ annot_pc' = "saved"
    /\ UNCHANGED <<empty_page_detection, annot_evaluation, pdf_for_annotation, margin_doc,
                   doc, comment_box>>
    /\ AnnotationFrame

AnnotationInit ==
    /\ PipelineInit /\ config = ConfigAll /\ RunsIdle /\ GeometryIdle /\ SanitizerIdle
    /\ CoordsIdle
    /\ empty_page_detection \in Detections
    /\ annot_evaluation \in AnnotEvaluations
    /\ pdf_for_annotation \in OriginalPdfs
    /\ margin_doc = <<>>
    /\ doc = <<>>
    /\ comment_box = <<>>
    /\ annot_pc = "start"

AnnotationNext ==
    \/ InsertBlankPage
    \/ \E show_pdf_page \in {"ok", "raises"} : AddMargins(show_pdf_page)
    \/ ExpandMargins
    \/ \E outcome \in DrawOutcomes : DrawScore(outcome)
    \/ \E outcome \in {"ok", "raises"} : DrawComment(outcome)
    \/ \E outcome \in {"ok", "raises"} : DrawSummary(outcome)
    \/ \E outcome \in {"ok", "raises"} : DrawOverallSummary(outcome)
    \/ SaveAnnotated

AnnotationSpec == AnnotationInit /\ [][AnnotationNext]_vars

\* the marks drawn on the pages of the annotated document
Marks(kind) == {<<k, m>> \in (DOMAIN doc) \X (UNION {doc[k].drawn : k \in DOMAIN doc}) :
                    m \in doc[k].drawn /\ m.kind = kind}

CommentDrawn == Marks("comment") # {}

PageInserted == \E k \in DOMAIN pdf_for_annotation : pdf_for_annotation[k].origin = 0

(***************************************************************************)
(* C22: in annotate_pdf_with_comments a failure while drawing one          *)
(* annotation does not abort the document: no failure of a drawing call    *)
(* leaves the function, so the annotation always goes on to the save.      *)
(***************************************************************************)
DrawFailureDoesNotAbort == annot_pc # "raised"

\* the score is drawn, the comment's drawing raises and nothing is saved
CommentFailureAbandonsDocumentReached ==
    /\ annot_pc = "raised"
    /\ Marks("score") # {}
    /\ comment_box # <<>>
    /\ comment_box.drawn_lines = 0
    /\ Marks("comment") = {} /\ Marks("summary") = {} /\ Marks("overall_summary") = {}

(***************************************************************************)
(* C23: for every comment annotate_pdf_with_comments places, the bottom    *)
(* edge of its box is not below the bottom edge of the page and its top    *)
(* edge is not above the page.                                             *)
(***************************************************************************)
CommentBoxWithinPage ==
    comment_box # <<>> =>
        /\ comment_box.box_y2 <= comment_box.page_height
        /\ comment_box.box_y1 >= 0

\* a comment of 219 characters on the small page: its box is moved up to 5
\* and still ends below the page
LongCommentBoxPastBottomReached ==
    /\ CommentDrawn
    /\ annot_evaluation.Comment.comment = LongText
    /\ comment_box.box_y1 = 5
    /\ comment_box.box_y2 = 5 + box_height(LongText)
    /\ comment_box.page_height = SmallPage.height + BOTTOM_MARGIN
    /\ comment_box.box_y2 > comment_box.page_height

(***************************************************************************)
(* C24: when the pipeline inserts a blank page, every score, comment and   *)
(* summary of a question is drawn on the page that holds the original page *)
(* it is meant for (page n + 1 of the document for an original page n at   *)
(* or after the position, page n before it), never on the inserted page.   *)
(***************************************************************************)
QuestionMarks == Marks("score") \cup Marks("comment") \cup Marks("summary")

AnnotationsFollowTheirPage ==
    PageInserted => \A d \in QuestionMarks : doc[d[1]].origin = d[2].page

\* a page inserted at position 1 and the comment for page 1 drawn on it
CommentOnInsertedPageReached ==
    /\ annot_pc = "saved"
    /\ empty_page_detection.blank_page_position = 1
    /\ doc[1].origin = 0
    /\ Mark("comment", 1, FALSE) \in doc[1].drawn

(***************************************************************************)
(* C25: for every empty_page_detection record the overall summary is       *)
(* placed either without a title on an existing page, when no page was     *)
(* inserted, or with the title on the page inserted in this run: the title *)
(* is not drawn on a page that was not inserted, and with a page inserted  *)
(* the summary is on no other page.                                        *)
(***************************************************************************)
OverallSummaryPlacement ==
    \A d \in Marks("overall_summary") :
        /\ d[2].title => doc[d[1]].origin = 0
        /\ PageInserted => doc[d[1]].origin = 0 /\ d[2].title
        /\ ~PageInserted => ~d[2].title

\* no page inserted, and the title drawn on the first page of the PDF
TitleOnOriginalPageReached ==
    /\ annot_pc = "saved"
    /\ ~empty_page_detection.insert_blank_page
    /\ ~PageInserted
    /\ Mark("overall_summary", 1, TRUE) \in doc[1].drawn
    /\ doc[1].origin = 1

(***************************************************************************)
(* C26: every margin expansion the pipeline applies keeps the number and   *)
(* the order of the pages, widens each page by the right margin and        *)
(* heightens it by the bottom margin, and does not attempt to copy the     *)
(* content of a blank page, so that an inserted page cannot make it fail.  *)
(***************************************************************************)
Expanded(pages) ==
    \A k \in DOMAIN pages :
        /\ pages[k].origin = pdf_for_annotation[k].origin
        /\ pages[k].width = pdf_for_annotation[k].width + RIGHT_MARGIN
        /\ pages[k].height = pdf_for_annotation[k].height + BOTTOM_MARGIN
        /\ pdf_for_annotation[k].blank => ~pages[k].copy_attempted

MarginExpansionLeavesBlankPages ==
    /\ annot_pc # "failed"
    /\ margin_doc # <<>> => Len(margin_doc) = Len(pdf_for_annotation) /\ Expanded(margin_doc)
    /\ doc # <<>> => Len(doc) = Len(pdf_for_annotation) /\ Expanded(doc)

\* add_margins copies the inserted page, and the copy raises
AddMarginsFailsOnInsertedPageReached ==
    /\ annot_pc = "failed"
    /\ margin_doc # <<>>
    /\ margin_doc[Len(margin_doc)].origin = 0
    /\ margin_doc[Len(margin_doc)].copy_attempted
    /\ doc = <<>>

(***************************************************************************)
(* C29: every line the word-by-word wrapper produces for a comment is      *)
(* drawn: the height of the box is enough for all of them.                 *)
(***************************************************************************)
EveryWrappedLineDrawn ==
    CommentDrawn => comment_box.drawn_lines = comment_box.lines

\* three words of ten letters: three lines wrapped, two drawn
ThirdLineOmittedReached ==
    /\ CommentDrawn
    /\ annot_evaluation.Comment.comment = ThreeWords
    /\ comment_box.lines = 3
    /\ comment_box.drawn_lines = 2

====
